---------------------------- MODULE Spec2Model ----------------------------
(***************************************************************************)
(* A model of esm-checker: the report aggregator (into_report), the        *)
(* dependency walker (walk / analyze_package), the resolver chain          *)
(* (Chain::call / Resolver::resolve), the exports-field matcher            *)
(* (ExportsResolver) and the shared package.json cache                     *)
(* (PackageJsonParser).                                                    *)
(*                                                                         *)
(* Strings are sequences of one-character strings, so that prefix, suffix, *)
(* split and replace are computed as the Rust code computes them.          *)
(***************************************************************************)
EXTENDS Integers, Sequences, FiniteSets, TLC

VARIABLES
    \* ---- report aggregator (walk_imports/src/report/into_report.rs)
    analyses,       \* the Vec<Result<Analysis, AnalysisError>> given to into_report
    report,         \* the Report being returned
    rpc,            \* "input" before the call, "done" after it
    \* ---- exports matcher (es_resolver/src/resolvers/exports_resolver.rs)
    exIn,           \* the subpath map, the specifier and the condition names
    exOut,          \* the matched export and the path resolve_export returns
    \* ---- resolver chain (es_resolver/src/resolve_chain.rs, resolve_chain_container.rs)
    chIn,           \* the (import_specifier, from) given to Resolver::resolve
    chLevel,        \* how many links of the chain have returned from Chain::call
    chRes,          \* the ResolveStepResult returned by the innermost pending call
    chLog,          \* the steps invoked so far: step, arguments, result
    chOut,          \* the Result returned by Resolver::resolve
    \* ---- dependency walker (walk_imports/src/analyze/walk.rs, analyze_package.rs)
    wWorld,         \* the installed files, their imports, the package's entrypoints
    wEntry,         \* analyze_package: 0 before the call, then the next entrypoint
    analysis,       \* the Analysis being filled
    visited,        \* the visited set
    wStack,         \* the active calls of walk, innermost last
    wLog,           \* the first visits so far: file, current-package label, parsed
    wOut,           \* the Result returned by analyze_package
    \* ---- package.json cache and resolver (es_resolver/src/package_json/parser.rs)
    cWorld,         \* the text of foo's package.json, the seed of the parser's hasher
    parsed,         \* PackageJsonParser::parsed: per shard, the entries by directory
    th,             \* per thread: where it is in resolve and get_or_parse_package_json
    returned,       \* the calls of get_or_parse_package_json that have returned
    resolved,       \* the calls of Resolver::resolve that have returned
    \* ---- entrypoints of a package (es_resolver/src/package_json/types.rs)
    epIn,           \* the text of the package.json and the condition names
    epOut,          \* what analyze_package has when its entrypoint loop starts
    \* ---- the presets (es_resolver/src/presets.rs)
    pIn,            \* the preset, the package.json of foo and the (import_specifier, from) resolved
    pRun,           \* the step about to be called, with the specifier and state it is given
    pLog,           \* the steps called so far, with what each received and returned
    pOut            \* what Resolver::resolve returned, or pending

reportVars == <<analyses, report, rpc>>
exportsVars == <<exIn, exOut>>
chainVars == <<chIn, chLevel, chRes, chLog, chOut>>
walkVars == <<wWorld, wEntry, analysis, visited, wStack, wLog, wOut>>
cacheVars == <<cWorld, parsed, th, returned, resolved>>
entrypointsVars == <<epIn, epOut>>
presetVars == <<pIn, pRun, pLog, pOut>>

vars == <<reportVars, exportsVars, chainVars, walkVars, cacheVars, entrypointsVars, presetVars>>

\* What each part of the program leaves alone.
notReport == <<exportsVars, chainVars, walkVars, cacheVars, entrypointsVars, presetVars>>
notExports == <<reportVars, chainVars, walkVars, cacheVars, entrypointsVars, presetVars>>
notChain == <<reportVars, exportsVars, walkVars, cacheVars, entrypointsVars, presetVars>>
notWalk == <<reportVars, exportsVars, chainVars, cacheVars, entrypointsVars, presetVars>>
notCache == <<reportVars, exportsVars, chainVars, walkVars, entrypointsVars, presetVars>>
notEntrypoints == <<reportVars, exportsVars, chainVars, walkVars, cacheVars, presetVars>>
notPreset == <<reportVars, exportsVars, chainVars, walkVars, cacheVars, entrypointsVars>>

-----------------------------------------------------------------------------
(* Strings                                                                   *)

\* ASCII codes of the characters the model uses (u8 order of str::cmp).
Byte(c) ==
    CASE c = "*" -> 42 [] c = "-" -> 45 [] c = "." -> 46 [] c = "/" -> 47
      [] c = ":" -> 58 [] c = "@" -> 64
      [] c = "A" -> 65 [] c = "B" -> 66 [] c = "C" -> 67 [] c = "D" -> 68
      [] c = "a" -> 97 [] c = "b" -> 98 [] c = "c" -> 99 [] c = "d" -> 100
      [] c = "e" -> 101 [] c = "f" -> 102 [] c = "g" -> 103 [] c = "h" -> 104
      [] c = "i" -> 105 [] c = "j" -> 106 [] c = "k" -> 107 [] c = "l" -> 108
      [] c = "m" -> 109 [] c = "n" -> 110 [] c = "o" -> 111 [] c = "p" -> 112
      [] c = "q" -> 113 [] c = "r" -> 114 [] c = "s" -> 115 [] c = "t" -> 116
      [] c = "u" -> 117 [] c = "v" -> 118 [] c = "w" -> 119 [] c = "x" -> 120
      [] c = "y" -> 121 [] c = "z" -> 122

\* char::to_lowercase on the ASCII letters of the model.
LowerChar(c) ==
    CASE c = "A" -> "a" [] c = "B" -> "b" [] c = "C" -> "c" [] c = "D" -> "d"
      [] OTHER -> c

\* str::to_lowercase
ToLowercase(s) == [i \in 1..Len(s) |-> LowerChar(s[i])]

\* Ord for str: lexicographic on bytes; a proper prefix is smaller.
RECURSIVE StrLess(_, _)
StrLess(a, b) ==
    IF b = <<>> THEN FALSE
    ELSE IF a = <<>> THEN TRUE
    ELSE IF Byte(Head(a)) < Byte(Head(b)) THEN TRUE
    ELSE IF Byte(Head(a)) > Byte(Head(b)) THEN FALSE
    ELSE StrLess(Tail(a), Tail(b))

StrLeq(a, b) == a = b \/ StrLess(a, b)

\* str::starts_with
StartsWith(s, p) == Len(p) <= Len(s) /\ SubSeq(s, 1, Len(p)) = p

\* str::ends_with
EndsWith(s, p) == Len(p) <= Len(s) /\ SubSeq(s, Len(s) - Len(p) + 1, Len(s)) = p

\* str::contains(char)
ContainsChar(s, c) == \E i \in 1..Len(s) : s[i] = c

\* &s[k..] with k a 0-based byte offset
From(s, k) == SubSeq(s, k + 1, Len(s))

\* &s[..k]
UpTo(s, k) == SubSeq(s, 1, k)

\* str::find(pattern): the 0-based offset of the first occurrence, or -1 for None.
\* The empty pattern is found at offset 0.
Find(s, p) ==
    LET hits == {k \in 0..(Len(s) - Len(p)) : SubSeq(s, k + 1, k + Len(p)) = p}
    IN IF hits = {} THEN -1 ELSE CHOOSE k \in hits : \A j \in hits : k <= j

-----------------------------------------------------------------------------
(* Report aggregator                                                         *)

\* Stable insertion of a keyed item into a list sorted by key: the item goes after
\* every item whose key is not greater (slice::sort and sort_by are stable).
RECURSIVE InsertSorted(_, _)
InsertSorted(x, s) ==
    IF s = <<>> THEN <<x>>
    ELSE IF StrLeq(Head(s).key, x.key) THEN <<Head(s)>> \o InsertSorted(x, Tail(s))
    ELSE <<x>> \o s

RECURSIVE StableSort(_)
StableSort(s) ==
    IF s = <<>> THEN <<>>
    ELSE InsertSorted(s[Len(s)], StableSort(SubSeq(s, 1, Len(s) - 1)))

Vals(s) == [i \in 1..Len(s) |-> s[i].val]

\* A plausible slip: the names compared as the three record lists are, lower-cased.
SortNamesIgnoringCase(list) ==
    Vals(StableSort([i \in 1..Len(list) |->
        [key |-> ToLowercase(list[i]), val |-> list[i]]]))

\* Vec<String>::sort()
SortNames(list) ==
    Vals(StableSort([i \in 1..Len(list) |-> [key |-> list[i], val |-> list[i]]]))

\* sort_by(|a, b| a.package_name.to_lowercase().cmp(&b.package_name.to_lowercase()))
SortByLowerName(list) ==
    Vals(StableSort([i \in 1..Len(list) |->
        [key |-> ToLowercase(list[i].package_name), val |-> list[i]]]))

EmptyReport ==
    [total |-> 0, esm |-> <<>>, cjs |-> <<>>,
     with_commonjs_dependencies |-> <<>>,
     with_missing_js_file_extensions |-> <<>>,
     resolve_errors |-> <<>>, parse_errors |-> <<>>]

\* A plausible slip: the missing-extensions test made before the CJS-deps test.
BucketExtensionsFirst(a) ==
    LET has_cjs_dependencies == a.transitive_commonjs_dependencies # {}
        has_missing_js_file_extensions == a.esm_missing_js_file_extensions # {}
    IN  IF a.is_entry_esm /\ has_missing_js_file_extensions THEN "with_ext"
        ELSE IF a.is_entry_esm /\ has_cjs_dependencies THEN "with_cjs"
        ELSE IF a.is_entry_esm THEN "esm"
        ELSE "cjs"

\* The if / continue chain of the Ok arm: the list the analysis is pushed to.
Bucket(a) ==
    LET has_cjs_dependencies == a.transitive_commonjs_dependencies # {}
        has_missing_js_file_extensions == a.esm_missing_js_file_extensions # {}
    IN  IF a.is_entry_esm /\ has_cjs_dependencies THEN "with_cjs"
        ELSE IF a.is_entry_esm /\ has_missing_js_file_extensions THEN "with_ext"
        ELSE IF a.is_entry_esm THEN "esm"
        ELSE "cjs"

\* The body of the `for analysis in analyses` loop for one element.
PushResult(r, res) ==
    IF res.ok THEN
        LET a == res.analysis
            b == Bucket(a)
        IN  IF b = "with_cjs" THEN
                [r EXCEPT !.with_commonjs_dependencies = Append(@,
                    [package_name |-> a.package_name,
                     transitive_commonjs_dependencies |->
                        a.transitive_commonjs_dependencies])]
            ELSE IF b = "with_ext" THEN
                [r EXCEPT !.with_missing_js_file_extensions = Append(@,
                    [package_name |-> a.package_name,
                     transitive_deps_with_missing_js_file_extensions |->
                        a.esm_missing_js_file_extensions])]
            ELSE IF b = "esm" THEN [r EXCEPT !.esm = Append(@, a.package_name)]
            ELSE [r EXCEPT !.cjs = Append(@, a.package_name)]
    ELSE IF res.kind = "ResolveError" THEN
        [r EXCEPT !.resolve_errors = Append(@,
            [package_name |-> res.package_name, detail |-> res.detail])]
    ELSE
        [r EXCEPT !.parse_errors = Append(@,
            [package_name |-> res.package_name, detail |-> res.detail])]

RECURSIVE PushAll(_, _)
PushAll(r, list) ==
    IF list = <<>> THEN r ELSE PushAll(PushResult(r, Head(list)), Tail(list))

\* The five final sorts; resolve_errors is left in input order.
SortReport(r) ==
    [r EXCEPT
        !.esm = SortNames(@),
        !.cjs = SortNames(@),
        !.with_commonjs_dependencies = SortByLowerName(@),
        !.with_missing_js_file_extensions = SortByLowerName(@),
        !.parse_errors = SortByLowerName(@)]

\* A plausible slip: total counting the analyses that succeeded only.
into_report_counting_ok(list) ==
    SortReport(PushAll(
        [EmptyReport EXCEPT !.total = Cardinality({i \in 1..Len(list) : list[i].ok})],
        list))

into_report(list) ==
    SortReport(PushAll([EmptyReport EXCEPT !.total = Len(list)], list))

\* ---- inputs of the report model
MaxAnalyses == 2

ReportNames == {<<"a">>, <<"B">>, <<"b">>}
DepNames == {<<"d">>}
DepSets == {{}} \cup {{d} : d \in DepNames}

OkResults ==
    {[ok |-> TRUE,
      analysis |-> [package_name |-> n, is_entry_esm |-> e,
                    transitive_commonjs_dependencies |-> t,
                    esm_missing_js_file_extensions |-> m]] :
        n \in ReportNames, e \in BOOLEAN, t \in DepSets, m \in DepSets}

ErrResults ==
    {[ok |-> FALSE, kind |-> k, package_name |-> n, detail |-> "e"] :
        k \in {"ResolveError", "ParseError"}, n \in ReportNames}

AnalysisResults == OkResults \cup ErrResults

RECURSIVE SeqsUpTo(_, _)
SeqsUpTo(S, n) ==
    IF n = 0 THEN {<<>>}
    ELSE LET shorter == SeqsUpTo(S, n - 1)
         IN shorter \cup {Append(s, x) : s \in {t \in shorter : Len(t) = n - 1}, x \in S}

InitReport ==
    /\ analyses \in SeqsUpTo(AnalysisResults, MaxAnalyses)
    /\ report = EmptyReport
    /\ rpc = "input"

\* The aggregator before generate_report has any result to hand over.
IdleReport ==
    /\ analyses = <<>>
    /\ report = EmptyReport
    /\ rpc = "idle"

IntoReport ==
    /\ rpc = "input"
    /\ report' = into_report(analyses)
    /\ rpc' = "done"
    /\ UNCHANGED <<analyses, notReport>>

NextReport == IntoReport

-----------------------------------------------------------------------------
(* Exports matcher                                                           *)

\* A HashMap<String, FilenameOrConditional> is a sequence of entries [k, v] with
\* distinct keys: the order of the sequence is the iteration order of that HashMap
\* instance (unspecified by std, fixed while the map is not modified).
\* FilenameOrConditional is [t |-> "Filename", s |-> str] or
\* [t |-> "Conditional", m |-> map].

\* Option<T>
None == [t |-> "None"]
Some(x) == [t |-> "Some", v |-> x]

Keys(map) == {map[i].k : i \in 1..Len(map)}

\* HashMap::get
Get(map, key) ==
    IF key \in Keys(map)
    THEN (CHOOSE e \in {map[i] : i \in 1..Len(map)} : e.k = key).v
    ELSE None

\* str::split(c) as a list: n occurrences of c give n + 1 parts.
RECURSIVE Split(_, _)
Split(s, c) ==
    LET hits == {i \in 1..Len(s) : s[i] = c}
    IN  IF hits = {} THEN <<s>>
        ELSE LET i == CHOOSE h \in hits : \A j \in hits : h <= j
             IN <<SubSeq(s, 1, i - 1)>> \o Split(SubSeq(s, i + 1, Len(s)), c)

\* str::replacen(c, to, 1)
ReplaceFirst(s, c, to) ==
    LET hits == {i \in 1..Len(s) : s[i] = c}
    IN  IF hits = {} THEN s
        ELSE LET i == CHOOSE h \in hits : \A j \in hits : h <= j
             IN SubSeq(s, 1, i - 1) \o to \o SubSeq(s, i + 1, Len(s))

\* ExportsResolver::replace_placeholders
RECURSIVE replace_placeholders(_, _)
replace_placeholders(str, captures) ==
    IF captures = <<>> THEN str
    ELSE replace_placeholders(ReplaceFirst(str, "*", Head(captures)), Tail(captures))

\* ExportsResolver::any_placeholders_in_map_values
RECURSIVE any_placeholders_in_map_values(_)
any_placeholders_in_map_values(map) ==
    \E i \in 1..Len(map) :
        IF map[i].v.t = "Filename" THEN ContainsChar(map[i].v.s, "*")
        ELSE any_placeholders_in_map_values(map[i].v.m)

\* Path::join followed by the component view of the path: a leading "./" of the
\* joined part is no component, and an absolute part replaces the base.
RECURSIVE StripCurDir(_)
StripCurDir(f) ==
    IF StartsWith(f, <<".", "/">>) THEN StripCurDir(From(f, 2)) ELSE f

Join(base, f) ==
    IF StartsWith(f, <<"/">>) THEN f
    ELSE IF StripCurDir(f) = <<>> \/ StripCurDir(f) = <<".">> THEN base
    ELSE IF base = <<"/">> THEN base \o StripCurDir(f)
    ELSE base \o <<"/">> \o StripCurDir(f)

\* The `for (i, key_part) in key.split('*').enumerate()` loop of match_export for one
\* key. i is 1-based here. The result is "no_match" for `continue 'outer`, and the
\* loop's variables when the loop ends or breaks.
RECURSIVE MatchKeyParts(_, _, _, _, _)
MatchKeyParts(parts, i, remaining, captures, ended_with_wildcard) ==
    IF i > Len(parts) THEN
        [status |-> "end", remaining |-> remaining, captures |-> captures,
         ended_with_wildcard |-> ended_with_wildcard]
    ELSE
        LET key_part == parts[i]
            ended == (key_part = <<>>)
        IN  IF i = 1 THEN
                IF ~StartsWith(remaining, key_part) THEN
                    \* break
                    [status |-> "end", remaining |-> remaining, captures |-> captures,
                     ended_with_wildcard |-> ended]
                ELSE MatchKeyParts(parts, i + 1, From(remaining, Len(key_part)),
                                   captures, ended)
            ELSE
                LET index == Find(remaining, key_part)
                IN  IF index >= 0 THEN
                        MatchKeyParts(parts, i + 1,
                                      From(remaining, index + Len(key_part)),
                                      Append(captures, UpTo(remaining, index)), ended)
                    ELSE [status |-> "no_match"]

\* One iteration of `'outer: for (key, value) in map.iter()`: the MatchedExport
\* returned for this key, or None when the loop goes on to the next key.
MatchKey(map, key, value, import_specifier) ==
    IF ~ContainsChar(key, "*") THEN None
    ELSE
        LET l == MatchKeyParts(Split(key, "*"), 1, import_specifier, <<>>, FALSE)
        IN  IF l.status = "no_match" THEN None
            ELSE
                LET captures == IF l.ended_with_wildcard
                                THEN Append(l.captures, l.remaining) ELSE l.captures
                    remaining == IF l.ended_with_wildcard THEN <<>> ELSE l.remaining
                IN  IF remaining # <<>> THEN None
                    ELSE IF value.t = "Filename" /\ ~ContainsChar(value.s, "*") THEN
                        [t |-> "Filename", s |-> value.s]
                    ELSE IF value.t = "Filename" THEN
                        [t |-> "FilenameWithPlaceholders", s |-> value.s,
                         captures |-> captures]
                    ELSE IF ~any_placeholders_in_map_values(map) THEN
                        [t |-> "Conditional", m |-> value.m]
                    ELSE
                        [t |-> "ConditionalWithPlaceholders", m |-> value.m,
                         captures |-> captures]

RECURSIVE MatchWildcards(_, _, _)
MatchWildcards(map, i, import_specifier) ==
    IF i > Len(map) THEN None
    ELSE LET r == MatchKey(map, map[i].k, map[i].v, import_specifier)
         IN IF r # None THEN r ELSE MatchWildcards(map, i + 1, import_specifier)

\* ExportsResolver::match_export
match_export(map, import_specifier) ==
    LET exact == Get(map, import_specifier)
    IN  IF exact # None /\ exact.t = "Filename" THEN [t |-> "Filename", s |-> exact.s]
        ELSE IF exact # None THEN [t |-> "Conditional", m |-> exact.m]
        ELSE MatchWildcards(map, 1, import_specifier)

\* ExportsResolver::resolve_condition_name, at condition_names[i..]. placeholders is
\* None or Some(captures). The result is Some(path) or None.
RECURSIVE ResolveConditionFrom(_, _, _, _, _)
ResolveConditionFrom(condition_names, i, map, package_root, placeholders) ==
    IF i > Len(condition_names) THEN None
    ELSE
        LET value == Get(map, condition_names[i])
        IN  IF value = None THEN
                ResolveConditionFrom(condition_names, i + 1, map, package_root,
                                     placeholders)
            ELSE IF value.t = "Filename" THEN
                IF placeholders # None
                THEN Some(Join(package_root,
                               replace_placeholders(value.s, placeholders.v)))
                ELSE Some(Join(package_root, value.s))
            ELSE
                LET path == ResolveConditionFrom(condition_names, 1, value.m,
                                                 package_root, placeholders)
                IN  IF path # None THEN path
                    ELSE ResolveConditionFrom(condition_names, i + 1, map,
                                              package_root, placeholders)

\* A plausible slip: the nested result returned as it is, also when it is None.
ResolveConditionNoFallThrough(condition_names, map, package_root, placeholders) ==
    LET hits == {i \in 1..Len(condition_names) : Get(map, condition_names[i]) # None}
    IN  IF hits = {} THEN None
        ELSE LET i == CHOOSE h \in hits : \A j \in hits : h <= j
                 value == Get(map, condition_names[i])
             IN  IF value.t = "Filename" THEN
                     IF placeholders # None
                     THEN Some(Join(package_root,
                                    replace_placeholders(value.s, placeholders.v)))
                     ELSE Some(Join(package_root, value.s))
                 ELSE ResolveConditionFrom(condition_names, 1, value.m, package_root,
                                           placeholders)

resolve_condition_name(condition_names, map, package_root, placeholders) ==
    ResolveConditionFrom(condition_names, 1, map, package_root, placeholders)

\* ExportsResolver::resolve_export
resolve_export(condition_names, entry, package_root) ==
    CASE entry.t = "Filename" -> Some(Join(package_root, entry.s))
      [] entry.t = "FilenameWithPlaceholders" ->
            Some(Join(package_root, replace_placeholders(entry.s, entry.captures)))
      [] entry.t = "Conditional" ->
            resolve_condition_name(condition_names, entry.m, package_root, None)
      [] entry.t = "ConditionalWithPlaceholders" ->
            resolve_condition_name(condition_names, entry.m, package_root,
                                   Some(entry.captures))

\* ---- inputs of the exports model

\* condition names
IMPORT == <<"i", "m", "p", "o", "r", "t">>
REQUIRE == <<"r", "e", "q", "u", "i", "r", "e">>
MODULE_ == <<"m", "o", "d", "u", "l", "e">>
DEFAULT == <<"d", "e", "f", "a", "u", "l", "t">>
NODE == <<"n", "o", "d", "e">>

\* presets::get_default_condition_names
get_default_condition_names == <<IMPORT, MODULE_, DEFAULT>>

ConditionLists == {get_default_condition_names, <<REQUIRE, DEFAULT>>, <<IMPORT, DEFAULT>>}

FooRoot == <<"/", "n", "m", "/", "f", "o", "o">>

F(s) == [t |-> "Filename", s |-> s]
C(m) == [t |-> "Conditional", m |-> m]

\* keys of a normalized subpath map of package foo
KeyFoo == <<"f", "o", "o">>                    \* "."
KeyBar == <<"f", "o", "o", "/", "b", "a", "r">>                \* "./bar"
KeyLibStar == <<"f", "o", "o", "/", "l", "i", "b", "/", "*">>          \* "./lib/*"
KeyStarJs == <<"f", "o", "o", "/", "*", ".", "j", "s">>            \* "./*.js"
KeyTwoStars == <<"f", "o", "o", "/", "*", "/", "b", "a", "z", "/", "*", ".", "j", "s">>    \* "./*/baz/*.js"
ExportKeys == {KeyFoo, KeyBar, KeyLibStar, KeyStarJs, KeyTwoStars}

\* the S3 map {import: ./m.mjs, require: ./c.cjs, default: ./d.js}, in two key orders
CondS3 ==
    <<[k |-> IMPORT, v |-> F(<<".", "/", "m", ".", "m", "j", "s">>)], [k |-> REQUIRE, v |-> F(<<".", "/", "c", ".", "c", "j", "s">>)],
      [k |-> DEFAULT, v |-> F(<<".", "/", "d", ".", "j", "s">>)]>>
CondS3Reordered ==
    <<[k |-> DEFAULT, v |-> F(<<".", "/", "d", ".", "j", "s">>)], [k |-> REQUIRE, v |-> F(<<".", "/", "c", ".", "c", "j", "s">>)],
      [k |-> IMPORT, v |-> F(<<".", "/", "m", ".", "m", "j", "s">>)]>>
\* {import: {node: ./n.js}, default: ./d.js}: the nested map offers no configured name
CondNestedMiss ==
    <<[k |-> IMPORT, v |-> C(<<[k |-> NODE, v |-> F(<<".", "/", "n", ".", "j", "s">>)]>>)],
      [k |-> DEFAULT, v |-> F(<<".", "/", "d", ".", "j", "s">>)]>>
\* {import: {default: ./x.js, node: ./n.js}, default: ./d.js}
CondNestedHit ==
    <<[k |-> IMPORT, v |-> C(<<[k |-> NODE, v |-> F(<<".", "/", "n", ".", "j", "s">>)],
                               [k |-> DEFAULT, v |-> F(<<".", "/", "x", ".", "j", "s">>)]>>)],
      [k |-> DEFAULT, v |-> F(<<".", "/", "d", ".", "j", "s">>)]>>
\* {require: ./c.cjs}
CondRequireOnly == <<[k |-> REQUIRE, v |-> F(<<".", "/", "c", ".", "c", "j", "s">>)]>>
\* {import: ./e/*.mjs, default: ./e/*.js}
CondStar ==
    <<[k |-> IMPORT, v |-> F(<<".", "/", "e", "/", "*", ".", "m", "j", "s">>)], [k |-> DEFAULT, v |-> F(<<".", "/", "e", "/", "*", ".", "j", "s">>)]>>

ExportValues ==
    {F(<<".", "/", "i", ".", "j", "s">>), F(<<".", "/", "s", "r", "c", "/", "*", ".", "j", "s">>), F(<<".", "/", "b", "/", "*", "/", "q", "/", "*", ".", "j", "s">>),
     C(CondS3), C(CondS3Reordered), C(CondNestedMiss), C(CondNestedHit),
     C(CondRequireOnly), C(CondStar)}

ExportSpecifiers ==
    {<<"f", "o", "o">>, <<"f", "o", "o", "/", "b", "a", "r">>, <<"f", "o", "o", "/", "l", "i", "b", "/", "u", "t", "i", "l">>, <<"f", "o", "o", "/", "b", "a", "z", ".", "j", "s">>, <<"f", "o", "o", "/", "o", "n", "e", "/", "b", "a", "z", "/", "t", "w", "o", ".", "j", "s">>}

\* Number of keys of a subpath map.
MaxKeys == 2

\* Every HashMap of at most n entries over the keys and values: every set of distinct
\* keys, every value for each, every iteration order.
RECURSIVE MapsUpTo(_)
MapsUpTo(n) ==
    IF n = 0 THEN {<<>>}
    ELSE LET shorter == MapsUpTo(n - 1)
         IN shorter \cup
            {Append(m, [k |-> key, v |-> val]) :
                m \in {x \in shorter : Len(x) = n - 1},
                key \in ExportKeys, val \in ExportValues}

SubpathMaps == {m \in MapsUpTo(MaxKeys) : Cardinality(Keys(m)) = Len(m)}

InitExports ==
    /\ exIn \in [map : SubpathMaps, import_specifier : ExportSpecifiers,
                 condition_names : ConditionLists]
    /\ exOut = [state |-> "input"]

\* The matcher before ExportsResolver::call is reached.
IdleExports ==
    /\ exIn = [state |-> "idle"]
    /\ exOut = [state |-> "idle"]

\* The match -> resolve_export part of ExportsResolver::call on a subpath map.
ResolveExport ==
    /\ exOut.state = "input"
    /\ LET entry == match_export(exIn.map, exIn.import_specifier)
       IN exOut' = [state |-> "done",
                    entry |-> entry,
                    path |-> IF entry = None THEN None
                             ELSE resolve_export(exIn.condition_names, entry, FooRoot)]
    /\ UNCHANGED <<exIn, notExports>>

NextExports == ResolveExport

-----------------------------------------------------------------------------
(* Resolver chain                                                            *)

\* ResolveStepResult<T>
StepOk(path) == [t |-> "Ok", path |-> path]
StepContinue(import_specifier, state) ==
    [t |-> "Continue", import_specifier |-> import_specifier, state |-> state]
StepError(e) == [t |-> "Error", error |-> e]

\* Number of steps chained onto new_chain.
ChainLen == 3

\* What the steps of a chain may be given and may return. A step is any ChainStep:
\* its result is not constrained by its arguments.
ChainSpecifiers == {"./a", "pkg"}
ChainFroms == {"/p/x.js", "/p/y.js"}
ChainStates == {"()", "package.json of pkg"}
ChainPaths == {"/p/a.js", "/p/link.js", "/p/missing.js"}
ChainErrors == {"FileNotFound", "PeerDependencyNotInstalled"}

StepResults ==
    {StepOk(p) : p \in ChainPaths}
    \cup {StepContinue(sp, st) : sp \in ChainSpecifiers, st \in ChainStates}
    \cup {StepError(e) : e \in ChainErrors}

\* fs::canonicalize: a link resolves to its target, a missing file is an io::Error.
canonicalize(p) ==
    CASE p = "/p/a.js" -> [ok |-> TRUE, path |-> "/p/a.js"]
      [] p = "/p/link.js" -> [ok |-> TRUE, path |-> "/p/a.js"]
      [] OTHER -> [ok |-> FALSE]

\* new_chain_fn
new_chain_fn(import_specifier, state) == StepContinue(import_specifier, state)

\* A plausible slip: the step is given the specifier of the resolve call, not the
\* one carried by the previous Continue.
StepArgumentsOriginalSpecifier(prev) ==
    [import_specifier |-> chIn.import_specifier, state |-> prev.state]

\* The arguments `self.f.call(import_specifier, from, state)` takes from the
\* Continue returned by `self.prev.call`.
StepArguments(prev) ==
    [import_specifier |-> prev.import_specifier, state |-> prev.state]

\* The match of Resolver::resolve on the result of the whole chain.
ResolveResult(res, from) ==
    CASE res.t = "Ok" ->
            IF canonicalize(res.path).ok
            THEN [ok |-> TRUE, path |-> canonicalize(res.path).path]
            ELSE [ok |-> FALSE, error |-> "CanonicalizeRelativePathFailed",
                  path |-> from]
      [] res.t = "Continue" ->
            [ok |-> FALSE, error |-> "FailedToResolve",
             import_specifier |-> res.import_specifier, from |-> from]
      [] res.t = "Error" -> [ok |-> FALSE, error |-> res.error]

InitChain ==
    /\ chIn \in [import_specifier : ChainSpecifiers, from : ChainFroms]
    /\ chLevel = -1
    /\ chRes = [t |-> "pending"]
    /\ chLog = <<>>
    /\ chOut = [t |-> "pending"]

\* No resolve call in progress.
IdleChain ==
    /\ chIn = [t |-> "idle"]
    /\ chLevel = -1
    /\ chRes = [t |-> "idle"]
    /\ chLog = <<>>
    /\ chOut = [t |-> "idle"]

\* Resolver::resolve calls the outermost link, every link calls its `prev` first, and
\* the innermost `prev` is new_chain, which returns Continue(import_specifier, ()).
NewChain ==
    /\ chLevel = -1
    /\ chRes' = new_chain_fn(chIn.import_specifier, "()")
    /\ chLevel' = 0
    /\ UNCHANGED <<chIn, chLog, chOut, notChain>>

\* Chain::call of the link holding step chLevel + 1, after `self.prev.call` returned
\* chRes.
ChainCall ==
    /\ chLevel >= 0 /\ chLevel < ChainLen
    /\ chLevel' = chLevel + 1
    /\ \/ /\ chRes.t = "Ok"
          /\ UNCHANGED <<chRes, chLog>>
       \/ /\ chRes.t = "Continue"
          /\ \E r \in StepResults :
                /\ chRes' = r
                /\ chLog' = Append(chLog,
                                   [step |-> chLevel + 1,
                                    import_specifier |-> StepArguments(chRes).import_specifier,
                                    from |-> chIn.from,
                                    state |-> StepArguments(chRes).state,
                                    result |-> r])
       \/ /\ chRes.t = "Error"
          /\ UNCHANGED <<chRes, chLog>>
    /\ UNCHANGED <<chIn, chOut, notChain>>

\* Resolver::resolve, once the outermost link has returned.
Resolve ==
    /\ chLevel = ChainLen
    /\ chOut.t = "pending"
    /\ chOut' = [t |-> "returned", result |-> ResolveResult(chRes, chIn.from)]
    /\ UNCHANGED <<chIn, chLevel, chRes, chLog, notChain>>

NextChain == NewChain \/ ChainCall \/ Resolve

-----------------------------------------------------------------------------
(* Dependency walker                                                          *)

\* get_npm_package_name
get_npm_package_name(import_specifier) ==
    LET slashes == {i \in 1..Len(import_specifier) : import_specifier[i] = "/"}
        \* the 1-based position of the n-th slash, 0 when there are fewer
        nth(n) == IF Cardinality(slashes) < n THEN 0
                  ELSE CHOOSE i \in slashes :
                        Cardinality({j \in slashes : j <= i}) = n
        up_to_slash == IF StartsWith(import_specifier, <<"@">>) THEN nth(2) ELSE nth(1)
    IN  IF up_to_slash = 0 THEN import_specifier
        ELSE UpTo(import_specifier, up_to_slash - 1)

\* A plausible slip: the label of a bare edge is the whole specifier.
NewCurrentModuleWholeSpecifier(specifier, current_module) ==
    IF ~StartsWith(specifier, <<".">>) THEN specifier ELSE current_module

\* `new_current_module` of walk
NewCurrentModule(specifier, current_module) ==
    IF ~StartsWith(specifier, <<".">>)
    THEN get_npm_package_name(specifier)
    ELSE current_module

\* str::strip_suffix('/')
StripSuffixSlash(s) == IF EndsWith(s, <<"/">>) THEN Some(UpTo(s, Len(s) - 1)) ELSE None

\* Path::parent
Parent(p) ==
    LET slashes == {i \in 1..Len(p) : p[i] = "/"}
        last == CHOOSE i \in slashes : \A j \in slashes : j <= i
    IN  IF last = 1 THEN <<"/">> ELSE UpTo(p, last - 1)

\* Path::extension: the part of the file name after its last '.', none when the
\* file name has no '.' or only a leading one.
Extension(p) ==
    LET slashes == {i \in 1..Len(p) : p[i] = "/"}
        start == IF slashes = {} THEN 1
                 ELSE 1 + (CHOOSE i \in slashes : \A j \in slashes : j <= i)
        dots == {i \in start..Len(p) : p[i] = "."}
        last == CHOOSE i \in dots : \A j \in dots : j <= i
    IN  IF dots = {} \/ last = start THEN None
        ELSE Some(SubSeq(p, last + 1, Len(p)))

\* ---- the installation the walker runs on
\* `path`, the directory that holds node_modules
WalkPath == <<"/">>
\* the top-level package
WalkPackage == <<"a">>
FileAI == <<"/", "n", "m", "/", "a", "/", "i", ".", "j", "s">>
FileAL == <<"/", "n", "m", "/", "a", "/", "l", ".", "j", "s">>
FileDI == <<"/", "n", "m", "/", "d", "/", "i", ".", "j", "s">>
FileDU == <<"/", "n", "m", "/", "d", "/", "u", ".", "j", "s">>
FileDB == <<"/", "n", "m", "/", "d", "/", "b", ".", "n", "o", "d", "e">>
FileSQ == <<"/", "n", "m", "/", "@", "s", "/", "q", "/", "x", ".", "j", "s">>
WalkFiles == {FileAI, FileAL, FileDI, FileDU, FileDB, FileSQ}

\* ecma::loader::NODE_BUILTINS, the one the installation's files import
NODE_BUILTINS == {<<"f", "s">>}

\* What the files of the installation may import, export from or require, in source
\* order.
ImportsAI ==
    {<<>>,
     <<<<".", "/", "l", ".", "j", "s">>>>,
     <<<<"d">>>>,
     <<<<".", "/", "l">>, <<"d", "/", "u", ".", "j", "s">>>>,
     <<<<".", "/", "i", ".", "j", "s">>, <<"d">>>>,
     <<<<"n", "o", "d", "e", ":", "f", "s">>, <<"n", "o", "d", "e", ":", "f", "s", "/">>, <<"f", "s">>, <<"d", "/">>, <<".", "/", "l", ".", "c", "j", "s">>>>,
     <<<<"p">>, <<".", "/", "c", ".", "j", "s", "o", "n">>, <<"d">>>>,
     <<<<"x">>, <<"d">>>>,
     <<<<".", "/", "s">>, <<"d">>>>,
     <<<<"f", "s", "/">>, <<"d">>>>,
     <<<<"d", "/", "b", ".", "n", "o", "d", "e">>, <<"@", "s", "/", "q", "/", "x", ".", "j", "s">>>>}
ImportsAL ==
    {<<>>,
     <<<<".", "/", "i", ".", "j", "s">>>>,
     <<<<"d">>>>,
     <<<<".", ".", "/", "d", "/", "u", ".", "j", "s">>>>}
ImportsDI ==
    {<<>>,
     <<<<".", "/", "u", ".", "j", "s">>>>,
     <<<<"a">>>>,
     <<<<".", "/", "u">>, <<"a", "/", "l", ".", "j", "s">>>>,
     <<<<"@", "s", "/", "q", "/", "x", ".", "j", "s">>>>,
     <<<<"p">>>>}
\* u.js of d imports nothing
ImportsDU == {<<>>}

ImportTables ==
    {(FileAI :> ai) @@ (FileAL :> al) @@ (FileDI :> di) @@ (FileDU :> du)
        @@ (FileDB :> <<>>) @@ (FileSQ :> <<>>) :
        ai \in ImportsAI, al \in ImportsAL, di \in ImportsDI, du \in ImportsDU}

\* What parse and has_cjs_syntax find in each file: an ES module, a module with
\* CommonJS syntax, or text that does not parse.
SyntaxTables ==
    {s \in [WalkFiles -> {"esm", "cjs", "invalid"}] :
        /\ s[FileAI] # "invalid" /\ s[FileDI] # "invalid" /\ s[FileDU] # "invalid"
        /\ s[FileDB] = "invalid"
        /\ s[FileSQ] = "cjs"}

\* What get_entrypoints returns for the top-level package: the entrypoints in the
\* iteration order of the map they come from, or an error.
EntrypointResults ==
    {[ok |-> TRUE, list |-> l] :
        l \in {<<>>, <<FileAI>>, <<FileAI, FileAL>>, <<FileAL, FileAI>>}}
    \cup {[ok |-> FALSE, list |-> <<>>, at |-> "get_or_parse_package_json",
            error |-> "PackageJsonNotFound"],
          [ok |-> FALSE, list |-> <<>>, at |-> "get_entrypoints",
            error |-> "FailedToResolve"]}

\* ---- the resolver given to the walker
\* The files the installed packages expose to bare specifiers.
BareTargets ==
    (<<"a">> :> FileAI) @@ (<<"a", "/", "l", ".", "j", "s">> :> FileAL) @@ (<<"d">> :> FileDI)
        @@ (<<"d", "/", "u", ".", "j", "s">> :> FileDU) @@ (<<"d", "/", "b", ".", "n", "o", "d", "e">> :> FileDB)
        @@ (<<"@", "s", "/", "q", "/", "x", ".", "j", "s">> :> FileSQ)

\* The directories of the installation that hold a package.json with a name and
\* no index file: a relative import of one is continued as an import of that name.
WalkNamedDirectories ==
    (<<"/", "n", "m", "/", "a", "/", "s">> :> <<"p">>)

\* peerDependencies and peerDependenciesMeta of the installed packages.
WalkManifests ==
    (<<"a">> :>
        [peer_dependencies |-> Some({<<"p">>, <<"x">>, <<"d">>, <<"o">>}),
         peer_dependencies_meta |->
            Some((<<"p">> :> [optional |-> TRUE]) @@ (<<"x">> :> [optional |-> FALSE])
                 @@ (<<"d">> :> [optional |-> TRUE]))])
    @@ (<<"d">> :>
        [peer_dependencies |-> None,
         peer_dependencies_meta |-> Some((<<"p">> :> [optional |-> TRUE]))])
    @@ (<<"@", "s", "/", "q">> :>
        [peer_dependencies |-> None, peer_dependencies_meta |-> None])

\* The directories of node_modules.
WalkInstalled == {<<"a">>, <<"d">>, <<"@", "s", "/", "q">>}

\* The package whose package.json is the nearest one above a file.
WalkSourcePackage(from) == get_npm_package_name(From(from, 4))

\* A plausible slip: every peer dependency is taken to be optional.
IsPeer(raw, name) ==
    /\ raw.peer_dependencies # None
    /\ name \in raw.peer_dependencies.v

\* The test of the optional-peer gate on the source package.json: the name is a
\* key of peerDependencies and peerDependenciesMeta marks it optional.
IsOptionalPeer(raw, name) ==
    /\ raw.peer_dependencies # None
    /\ name \in raw.peer_dependencies.v
    /\ raw.peer_dependencies_meta # None
    /\ name \in DOMAIN raw.peer_dependencies_meta.v
    /\ raw.peer_dependencies_meta.v[name].optional

\* The chain after the relative-path step, for the installation of the walker:
\* the optional-peer gate, then the lookup in node_modules.
WalkResolveBare(import_specifier, from) ==
    LET name == get_npm_package_name(import_specifier)
    IN  IF /\ IsOptionalPeer(WalkManifests[WalkSourcePackage(from)], name)
           /\ name \notin WalkInstalled
        THEN [ok |-> FALSE, error |-> "PeerDependencyNotInstalled"]
        ELSE IF import_specifier \in DOMAIN BareTargets
        THEN [ok |-> TRUE, path |-> BareTargets[import_specifier]]
        ELSE [ok |-> FALSE, error |-> "FailedToResolve"]

\* Resolve::resolve of the resolver the walker is given: a relative specifier is
\* joined to the directory of `from` (a leading `../` names the directory above
\* it, as the canonical path does) and may lack its `.js`; when it names a
\* directory with a named package.json the chain continues with that name; a bare
\* specifier passes the optional-peer gate and is looked up in node_modules.
WalkResolve(specifier, from) ==
    IF StartsWith(specifier, <<".">>) THEN
        LET path == IF StartsWith(specifier, <<".", ".", "/">>)
                    THEN Join(Parent(Parent(from)), From(specifier, 3))
                    ELSE Join(Parent(from), specifier)
        IN  IF path \in WalkFiles THEN [ok |-> TRUE, path |-> path]
            ELSE IF path \o <<".", "j", "s">> \in WalkFiles
                 THEN [ok |-> TRUE, path |-> path \o <<".", "j", "s">>]
            ELSE IF path \in DOMAIN WalkNamedDirectories
                 THEN WalkResolveBare(WalkNamedDirectories[path], from)
            ELSE [ok |-> FALSE, error |-> "FileNotFound"]
    ELSE WalkResolveBare(specifier, from)

\* A plausible slip: the package counts as ESM once a file of it has been parsed.
NewAnalysisNotYetEsm(package_name) ==
    [package_name |-> package_name, is_entry_esm |-> FALSE,
     transitive_commonjs_dependencies |-> {},
     esm_missing_js_file_extensions |-> {}]

\* Analysis, as analyze_package constructs it
NewAnalysis(package_name) ==
    [package_name |-> package_name, is_entry_esm |-> TRUE,
     transitive_commonjs_dependencies |-> {},
     esm_missing_js_file_extensions |-> {}]

\* AnalysisError::ResolveError and AnalysisError::ParseError
AnalysisResolveError(package_name, import_specifier, from, source) ==
    [ok |-> FALSE, kind |-> "ResolveError", package_name |-> package_name,
     detail |-> [import_specifier |-> import_specifier, from |-> from,
                 source |-> source]]
AnalysisParseError(package_name, path) ==
    [ok |-> FALSE, kind |-> "ParseError", package_name |-> package_name,
     detail |-> [path |-> path]]

\* A plausible slip: the file is never recorded as visited.
VisitedNotRecorded(seen, entrypoint) == seen

\* `visited.insert(entrypoint.to_owned())`
VisitedInsert(seen, entrypoint) == seen \cup {entrypoint}

\* A plausible slip: the label of a CommonJS file is inserted whatever it is.
RecordCjsEveryLabel(a, current_module) ==
    [a EXCEPT !.is_entry_esm = @ /\ current_module # a.package_name,
              !.transitive_commonjs_dependencies = @ \cup {current_module}]

\* The `if has_cjs` block of walk.
RecordCjs(a, current_module) ==
    IF current_module = a.package_name
    THEN [a EXCEPT !.is_entry_esm = FALSE]
    ELSE [a EXCEPT !.transitive_commonjs_dependencies = @ \cup {current_module}]

\* The specifier of a dependency after `strip_suffix('/')`, and whether a Node.js
\* builtin of that name may be skipped.
Stripped(original_specifier) ==
    IF StripSuffixSlash(original_specifier) # None
    THEN [specifier |-> StripSuffixSlash(original_specifier).v,
          allow_node_builtins |-> FALSE]
    ELSE [specifier |-> original_specifier, allow_node_builtins |-> TRUE]

\* A plausible slip: the test is made after the `node:` / `.json` skip.
RecordMissingExtensionAfterSkip(a, specifier, current_module) ==
    IF /\ StartsWith(specifier, <<".">>)
       /\ ~EndsWith(specifier, <<".", "j", "s">>)
       /\ ~EndsWith(specifier, <<".", "m", "j", "s">>)
       /\ ~EndsWith(specifier, <<".", "j", "s", "o", "n">>)
    THEN [a EXCEPT !.esm_missing_js_file_extensions = @ \cup {current_module}]
    ELSE a

\* The missing-extension test of walk.
RecordMissingExtension(a, specifier, current_module) ==
    IF /\ StartsWith(specifier, <<".">>)
       /\ ~EndsWith(specifier, <<".", "j", "s">>)
       /\ ~EndsWith(specifier, <<".", "m", "j", "s">>)
    THEN [a EXCEPT !.esm_missing_js_file_extensions = @ \cup {current_module}]
    ELSE a

\* A plausible slip: the skip made for .json files only.
SkippedJsonOnly(specifier) == EndsWith(specifier, <<".", "j", "s", "o", "n">>)

\* `specifier.starts_with("node:") || specifier.ends_with(".json")`
SkippedSpecifier(specifier) ==
    \/ StartsWith(specifier, <<"n", "o", "d", "e", ":">>)
    \/ EndsWith(specifier, <<".", "j", "s", "o", "n">>)

\* A plausible slip: the error of a recursive call is dropped by its caller, so it
\* ends the innermost walk call only.
UnwindInnermostCall(stack) == SubSeq(stack, 1, Len(stack) - 1)

\* `?` on the Err of parse, of resolve and of the recursive walk call: the error
\* leaves every active walk call and analyze_package.
Unwind(stack) == <<>>

Top == wStack[Len(wStack)]
Pop == SubSeq(wStack, 1, Len(wStack) - 1)
Frame(current_module, import_path, entrypoint) ==
    [current_module |-> current_module, import_path |-> import_path,
     entrypoint |-> entrypoint, i |-> 0]

InitWalk ==
    /\ wWorld \in [syntax : SyntaxTables, imports : ImportTables,
                   package : EntrypointResults]
    /\ wEntry = 0
    /\ analysis = None
    /\ visited = {}
    /\ wStack = <<>>
    /\ wLog = <<>>
    /\ wOut = [t |-> "pending"]

\* No analyze_package call in progress.
IdleWalk ==
    /\ wWorld = [t |-> "idle"]
    /\ wEntry = 0
    /\ analysis = None
    /\ visited = {}
    /\ wStack = <<>>
    /\ wLog = <<>>
    /\ wOut = [t |-> "idle"]

\* analyze_package up to its `for entrypoint in ...` loop: the package.json is
\* loaded, the Analysis and the visited set are created, the entrypoints are listed.
AnalyzePackage ==
    /\ wOut.t = "pending"
    /\ wEntry = 0
    /\ wEntry' = 1
    /\ IF ~wWorld.package.ok /\ wWorld.package.at = "get_or_parse_package_json"
       THEN /\ wOut' = [t |-> "returned",
                        result |-> AnalysisResolveError(WalkPackage, WalkPackage,
                                        WalkPath, wWorld.package.error)]
            /\ UNCHANGED <<analysis, visited>>
       ELSE /\ analysis' = Some(NewAnalysis(WalkPackage))
            /\ visited' = {}
            /\ IF ~wWorld.package.ok
               THEN wOut' = [t |-> "returned",
                             result |-> AnalysisResolveError(WalkPackage, WalkPackage,
                                            WalkPath, wWorld.package.error)]
               ELSE UNCHANGED wOut
    /\ UNCHANGED <<wWorld, wStack, wLog, notWalk>>

\* One turn of the `for entrypoint in ...` loop: the call of walk.
WalkEntrypoint ==
    /\ wOut.t = "pending"
    /\ wStack = <<>>
    /\ wEntry >= 1 /\ wEntry <= Len(wWorld.package.list)
    /\ wStack' = <<Frame(WalkPackage, WalkPath, wWorld.package.list[wEntry])>>
    /\ wEntry' = wEntry + 1
    /\ UNCHANGED <<wWorld, analysis, visited, wLog, wOut, notWalk>>

\* walk from its entry to the `for dep in filtered_deps` loop.
WalkVisit ==
    /\ wStack # <<>>
    /\ Top.i = 0
    /\ LET entrypoint == Top.entrypoint
           current_module == Top.current_module
       IN  IF entrypoint \in visited THEN
                /\ wStack' = Pop
                /\ UNCHANGED <<analysis, visited, wLog, wOut>>
           ELSE
                /\ visited' = VisitedInsert(visited, entrypoint)
                /\ IF Extension(entrypoint) \in {Some(<<"j", "s", "o", "n">>),
                                                 Some(<<"n", "o", "d", "e">>)}
                   THEN /\ wStack' = Pop
                        /\ wLog' = Append(wLog, [file |-> entrypoint,
                                                current_module |-> current_module,
                                                parsed |-> FALSE])
                        /\ UNCHANGED <<analysis, wOut>>
                   ELSE /\ wLog' = Append(wLog, [file |-> entrypoint,
                                                current_module |-> current_module,
                                                parsed |-> TRUE])
                        /\ IF wWorld.syntax[entrypoint] = "invalid"
                           THEN /\ wOut' = [t |-> "returned",
                                            result |-> AnalysisParseError(
                                                analysis.v.package_name, entrypoint)]
                                /\ wStack' = Unwind(wStack)
                                /\ UNCHANGED analysis
                           ELSE /\ analysis' =
                                      IF wWorld.syntax[entrypoint] = "cjs"
                                      THEN Some(RecordCjs(analysis.v, current_module))
                                      ELSE analysis
                                /\ wStack' = [wStack EXCEPT ![Len(wStack)].i = 1]
                                /\ UNCHANGED wOut
    /\ UNCHANGED <<wWorld, wEntry, notWalk>>

\* One turn of the `for dep in filtered_deps` loop, up to the recursive call.
WalkImport ==
    /\ wStack # <<>>
    /\ Top.i >= 1 /\ Top.i <= Len(wWorld.imports[Top.entrypoint])
    /\ LET entrypoint == Top.entrypoint
           current_module == Top.current_module
           original_specifier == wWorld.imports[entrypoint][Top.i]
           specifier == Stripped(original_specifier).specifier
           allow_node_builtins == Stripped(original_specifier).allow_node_builtins
           resolved_dependency == WalkResolve(specifier, entrypoint)
           next == [wStack EXCEPT ![Len(wStack)].i = @ + 1]
       IN  /\ analysis' = Some(RecordMissingExtension(analysis.v, specifier,
                                                      current_module))
           /\ IF SkippedSpecifier(specifier) THEN
                    /\ wStack' = next
                    /\ UNCHANGED wOut
              ELSE IF resolved_dependency.ok THEN
                    /\ wStack' = Append(next,
                            Frame(NewCurrentModule(specifier, current_module),
                                  entrypoint, resolved_dependency.path))
                    /\ UNCHANGED wOut
              ELSE IF allow_node_builtins /\ specifier \in NODE_BUILTINS THEN
                    /\ wStack' = next
                    /\ UNCHANGED wOut
              ELSE IF resolved_dependency.error = "PeerDependencyNotInstalled" THEN
                    /\ wStack' = next
                    /\ UNCHANGED wOut
              ELSE  /\ wOut' = [t |-> "returned",
                                result |-> AnalysisResolveError(
                                    analysis.v.package_name, original_specifier,
                                    entrypoint, resolved_dependency.error)]
                    /\ wStack' = Unwind(wStack)
    /\ UNCHANGED <<wWorld, wEntry, visited, wLog, notWalk>>

\* The `Ok(())` at the end of walk.
WalkReturn ==
    /\ wStack # <<>>
    /\ Top.i > Len(wWorld.imports[Top.entrypoint])
    /\ wStack' = Pop
    /\ UNCHANGED <<wWorld, wEntry, analysis, visited, wLog, wOut, notWalk>>

\* The `Ok(analysis)` at the end of analyze_package.
AnalyzeReturn ==
    /\ wOut.t = "pending"
    /\ wStack = <<>>
    /\ wEntry > Len(wWorld.package.list)
    /\ wOut' = [t |-> "returned", result |-> [ok |-> TRUE, analysis |-> analysis.v]]
    /\ UNCHANGED <<wWorld, wEntry, analysis, visited, wStack, wLog, notWalk>>

NextWalk ==
    \/ AnalyzePackage \/ WalkEntrypoint \/ WalkVisit \/ WalkImport \/ WalkReturn
    \/ AnalyzeReturn

\* ---- analyze_package as a function of the installation
\* walk and its `for dep in filtered_deps` loop. s holds the Analysis, the visited
\* set and the error a `?` has propagated, if any.
RECURSIVE walk(_, _, _, _)
RECURSIVE WalkDependencies(_, _, _, _, _)
walk(world, s, current_module, entrypoint) ==
    IF s.error # None \/ entrypoint \in s.visited THEN s
    ELSE IF Extension(entrypoint) \in {Some(<<"j", "s", "o", "n">>), Some(<<"n", "o", "d", "e">>)}
    THEN [s EXCEPT !.visited = VisitedInsert(@, entrypoint)]
    ELSE IF world.syntax[entrypoint] = "invalid"
    THEN [s EXCEPT !.visited = VisitedInsert(@, entrypoint),
                   !.error = Some(AnalysisParseError(s.analysis.package_name,
                                                     entrypoint))]
    ELSE WalkDependencies(world,
            [s EXCEPT !.visited = VisitedInsert(@, entrypoint),
                      !.analysis = IF world.syntax[entrypoint] = "cjs"
                                   THEN RecordCjs(@, current_module) ELSE @],
            current_module, entrypoint, 1)

WalkDependencies(world, s, current_module, entrypoint, i) ==
    IF s.error # None \/ i > Len(world.imports[entrypoint]) THEN s
    ELSE
        LET original_specifier == world.imports[entrypoint][i]
            specifier == Stripped(original_specifier).specifier
            allow_node_builtins == Stripped(original_specifier).allow_node_builtins
            resolved_dependency == WalkResolve(specifier, entrypoint)
            recorded == [s EXCEPT !.analysis =
                            RecordMissingExtension(@, specifier, current_module)]
        IN  IF SkippedSpecifier(specifier) THEN
                WalkDependencies(world, recorded, current_module, entrypoint, i + 1)
            ELSE IF resolved_dependency.ok THEN
                WalkDependencies(world,
                    walk(world, recorded,
                         NewCurrentModule(specifier, current_module),
                         resolved_dependency.path),
                    current_module, entrypoint, i + 1)
            ELSE IF allow_node_builtins /\ specifier \in NODE_BUILTINS THEN
                WalkDependencies(world, recorded, current_module, entrypoint, i + 1)
            ELSE IF resolved_dependency.error = "PeerDependencyNotInstalled" THEN
                WalkDependencies(world, recorded, current_module, entrypoint, i + 1)
            ELSE [recorded EXCEPT !.error =
                    Some(AnalysisResolveError(s.analysis.package_name,
                            original_specifier, entrypoint,
                            resolved_dependency.error))]

\* The `for entrypoint in ...` loop of analyze_package over the entrypoints from
\* position k on.
RECURSIVE WalkEntrypoints(_, _, _, _)
WalkEntrypoints(world, s, entrypoints, k) ==
    IF k > Len(entrypoints) THEN s
    ELSE WalkEntrypoints(world, walk(world, s, WalkPackage, entrypoints[k]),
                         entrypoints, k + 1)

\* analyze_package, get_entrypoints yielding `entrypoints` in this order.
analyze_package(world, entrypoints) ==
    IF ~world.package.ok
    THEN AnalysisResolveError(WalkPackage, WalkPackage, WalkPath, world.package.error)
    ELSE LET s == WalkEntrypoints(world,
                    [analysis |-> NewAnalysis(WalkPackage), visited |-> {},
                     error |-> None], entrypoints, 1)
         IN  IF s.error # None THEN s.error.v
             ELSE [ok |-> TRUE, analysis |-> s.analysis]

-----------------------------------------------------------------------------
(* Filesystem and package.json                                                *)

\* ---- paths, by their components
\* Path::file_name
FileName(p) ==
    LET parts == Split(p, "/") IN parts[Len(parts)]

\* PathBuf::pop: the path without its last component; the root stays the root.
PopPath(p) == IF p = <<"/">> THEN p ELSE Parent(p)

\* The path and its ancestors, nearest first, as `loop { ...; if !current.pop() }`
\* enumerates them.
RECURSIVE Ancestors(_)
Ancestors(p) == IF p = <<"/">> THEN <<p>> ELSE <<p>> \o Ancestors(Parent(p))

\* ---- JSON values of the exports-like fields
JString(s) == [j |-> "String", s |-> s]
JObject(o) == [j |-> "Object", o |-> o]
JOther == [j |-> "Other"]

\* ---- the installation the resolver runs on
NodeModulesDir == <<"/", "n", "o", "d", "e", "_", "m", "o", "d", "u", "l", "e", "s">>
DirFoo == <<"/", "n", "o", "d", "e", "_", "m", "o", "d", "u", "l", "e", "s", "/", "f", "o", "o">>
DirBar == <<"/", "n", "o", "d", "e", "_", "m", "o", "d", "u", "l", "e", "s", "/", "b", "a", "r">>
DirBaz == <<"/", "n", "o", "d", "e", "_", "m", "o", "d", "u", "l", "e", "s", "/", "b", "a", "z">>
DirQux == <<"/", "n", "o", "d", "e", "_", "m", "o", "d", "u", "l", "e", "s", "/", "q", "u", "x">>
FsQuxIndex == <<"/", "n", "o", "d", "e", "_", "m", "o", "d", "u", "l", "e", "s", "/", "q", "u", "x", "/", "i", "n", "d", "e", "x", ".", "j", "s">>
NODE_MODULES == <<"n", "o", "d", "e", "_", "m", "o", "d", "u", "l", "e", "s">>
PACKAGE_JSON == <<"p", "a", "c", "k", "a", "g", "e", ".", "j", "s", "o", "n">>

FsFooM == <<"/", "n", "o", "d", "e", "_", "m", "o", "d", "u", "l", "e", "s", "/", "f", "o", "o", "/", "m", ".", "j", "s">>
FsFooX == <<"/", "n", "o", "d", "e", "_", "m", "o", "d", "u", "l", "e", "s", "/", "f", "o", "o", "/", "x", ".", "j", "s">>
FsFooAU == <<"/", "n", "o", "d", "e", "_", "m", "o", "d", "u", "l", "e", "s", "/", "f", "o", "o", "/", "a", "/", "l", "i", "b", "/", "u", ".", "j", "s">>
FsFooBU == <<"/", "n", "o", "d", "e", "_", "m", "o", "d", "u", "l", "e", "s", "/", "f", "o", "o", "/", "b", "/", "u", ".", "j", "s">>
FsBarI == <<"/", "n", "o", "d", "e", "_", "m", "o", "d", "u", "l", "e", "s", "/", "b", "a", "r", "/", "i", ".", "j", "s">>

\* a copy of bar installed inside foo
DirFooBar == <<"/", "n", "o", "d", "e", "_", "m", "o", "d", "u", "l", "e", "s", "/", "f", "o", "o", "/", "n", "o", "d", "e", "_", "m", "o", "d", "u", "l", "e", "s", "/", "b", "a", "r">>
FsFooBarI == <<"/", "n", "o", "d", "e", "_", "m", "o", "d", "u", "l", "e", "s", "/", "f", "o", "o", "/", "n", "o", "d", "e", "_", "m", "o", "d", "u", "l", "e", "s", "/", "b", "a", "r", "/", "i", ".", "j", "s">>

FsFiles ==
    {Join(DirFoo, PACKAGE_JSON), FsFooM, FsFooX, FsFooAU, FsFooBU,
     Join(DirBar, PACKAGE_JSON), FsBarI,
     Join(DirQux, PACKAGE_JSON), FsQuxIndex,
     Join(DirFooBar, PACKAGE_JSON), FsFooBarI}

FsDirs == UNION {{a[i] : i \in 2..Len(a)} : a \in {Ancestors(f) : f \in FsFiles}}

\* Path::is_file, Path::is_dir, Path::exists
is_file(p) == p \in FsFiles
is_dir(p) == p \in FsDirs
exists(p) == is_file(p) \/ is_dir(p)

\* fs::canonicalize: the installation has no links, a path that does not exist is
\* an io::Error.
Canonicalize(p) == IF exists(p) THEN [ok |-> TRUE, path |-> p] ELSE [ok |-> FALSE]

\* RawPackageJson of a file without any of the fields.
EmptyRaw ==
    [name |-> None, exports |-> None, files |-> None, main |-> None,
     browser |-> None, module |-> None, types |-> None,
     peer_dependencies |-> None, peer_dependencies_meta |-> None]

\* bar: a named package with a main file and an optional peer dependency
ManifestBar ==
    [valid |-> TRUE,
     raw |-> [EmptyRaw EXCEPT
                !.name = Some(<<"b", "a", "r">>),
                !.main = Some(JString(<<".", "/", "i", ".", "j", "s">>)),
                !.peer_dependencies = Some({<<"o", "p", "t">>}),
                !.peer_dependencies_meta = Some([n \in {<<"o", "p", "t">>} |-> [optional |-> TRUE]])]]

\* foo with two wildcard keys that both match foo/lib/u.js
ManifestFooWildcards ==
    [valid |-> TRUE,
     raw |-> [EmptyRaw EXCEPT
                !.name = Some(<<"f", "o", "o">>),
                !.exports = Some(JObject(<<
                    [k |-> <<".", "/", "*", ".", "j", "s">>, v |-> JString(<<".", "/", "a", "/", "*", ".", "j", "s">>)],
                    [k |-> <<".", "/", "l", "i", "b", "/", "*", ".", "j", "s">>, v |-> JString(<<".", "/", "b", "/", "*", ".", "j", "s">>)]>>))]]

\* foo without a name field
ManifestFooNameless ==
    [valid |-> TRUE, raw |-> [EmptyRaw EXCEPT !.main = Some(JString(<<".", "/", "m", ".", "j", "s">>))]]

\* foo with conditions on its root export, and a main field
ManifestFooConditions ==
    [valid |-> TRUE,
     raw |-> [EmptyRaw EXCEPT
                !.name = Some(<<"f", "o", "o">>),
                !.main = Some(JString(<<".", "/", "x", ".", "j", "s">>)),
                !.exports = Some(JObject(<<
                    [k |-> <<".">>, v |-> JObject(<<
                        [k |-> <<"i", "m", "p", "o", "r", "t">>, v |-> JString(<<".", "/", "m", ".", "j", "s">>)],
                        [k |-> <<"r", "e", "q", "u", "i", "r", "e">>, v |-> JString(<<".", "/", "x", ".", "j", "s">>)]>>)]>>))]]

\* qux, which has an index.js and lists it in its files field
ManifestQux ==
    [valid |-> TRUE,
     raw |-> [EmptyRaw EXCEPT
                !.name = Some(<<"q", "u", "x">>),
                !.files = Some({<<"i", "n", "d", "e", "x", ".", "j", "s">>})]]

\* foo with text that is no JSON
ManifestFooInvalid == [valid |-> FALSE]

FooManifests ==
    {ManifestFooWildcards, ManifestFooNameless, ManifestFooConditions,
     ManifestFooInvalid}

\* The text of <module_path>/package.json, when there is such a file.
ReadManifest(world, module_path) ==
    IF ~is_file(Join(module_path, PACKAGE_JSON)) THEN None
    ELSE IF module_path = DirFoo THEN Some(world.foo)
    ELSE IF module_path = DirQux THEN Some(ManifestQux)
    ELSE Some(ManifestBar)

\* ---- normalization of the exports-like fields
\* HashMap::insert on the list of entries of a map
MapInsert(map, k, v) ==
    IF k \in Keys(map)
    THEN [i \in 1..Len(map) |-> IF map[i].k = k THEN [k |-> k, v |-> v] ELSE map[i]]
    ELSE Append(map, [k |-> k, v |-> v])

\* `o.keys().any(|k| k.starts_with('.'))`
AnyDottedKey(o) == \E i \in 1..Len(o) : StartsWith(o[i].k, <<".">>)

\* PackageJsonParser::parse_export_key
parse_export_key(key, parent_name) ==
    IF StartsWith(key, <<".">>) THEN parent_name \o From(key, 1) ELSE key

\* PackageJsonParser::parse_exports_conditions and parse_condition_value, which call
\* each other: the entries added to hash_map, or None for the `return None`.
RECURSIVE parse_exports_conditions(_, _, _, _)
parse_condition_value(map, value, parent_name) ==
    IF value.j = "String" THEN Some(MapInsert(map, parent_name, F(value.s)))
    ELSE IF value.j = "Object" THEN parse_exports_conditions(map, value.o, 1, parent_name)
    ELSE None

parse_exports_conditions(hash_map, object, i, parent_name) ==
    IF i > Len(object) THEN Some(hash_map)
    ELSE LET key == object[i].k
             value == object[i].v
             parsed_key == parse_export_key(key, parent_name)
         IN  IF value.j = "String" THEN
                parse_exports_conditions(MapInsert(hash_map, parsed_key, F(value.s)),
                                         object, i + 1, parent_name)
             ELSE IF value.j = "Object" THEN
                LET inner == parse_condition_value(<<>>, value, parent_name)
                IN  IF inner = None THEN None
                    ELSE parse_exports_conditions(
                            MapInsert(hash_map, parsed_key, C(inner.v)),
                            object, i + 1, parent_name)
             ELSE None

\* PackageJsonParser::parse_export_names
RECURSIVE parse_export_names(_, _, _, _)
parse_export_names(hash_map, object, i, parent_name) ==
    IF i > Len(object) THEN Some(hash_map)
    ELSE LET key == object[i].k
             value == object[i].v
             parsed_key == parse_export_key(key, parent_name)
         IN  IF value.j = "String" THEN
                parse_export_names(MapInsert(hash_map, parsed_key, F(value.s)),
                                   object, i + 1, parent_name)
             ELSE IF value.j = "Object" /\ AnyDottedKey(value.o) THEN
                LET nested == parse_export_names(hash_map, value.o, 1, parsed_key)
                IN  IF nested = None THEN None
                    ELSE parse_export_names(nested.v, object, i + 1, parent_name)
             ELSE IF value.j = "Object" THEN
                LET inner == parse_exports_conditions(<<>>, value.o, 1, parsed_key)
                IN  IF inner = None THEN None
                    ELSE parse_export_names(
                            MapInsert(hash_map, parsed_key, C(inner.v)),
                            object, i + 1, parent_name)
             ELSE parse_export_names(hash_map, object, i + 1, parent_name)

\* PackageJsonParser::parse_exports_like_field
parse_exports_like_field(package_name, input) ==
    IF input = None THEN None
    ELSE LET value == input.v
         IN  IF value.j = "String" THEN Some([t |-> "Filename", s |-> value.s])
             ELSE IF value.j = "Object" /\ AnyDottedKey(value.o) THEN
                LET map == parse_export_names(<<>>, value.o, 1, package_name)
                IN  IF map = None THEN None ELSE Some([t |-> "Map", m |-> map.v])
             ELSE IF value.j = "Object" THEN
                LET map == parse_exports_conditions(<<>>, value.o, 1, package_name)
                IN  IF map = None THEN None
                    ELSE Some([t |-> "Conditional", m |-> map.v])
             ELSE None

\* `raw.name.as_ref().or(package_name.as_ref()).and_then(|package_name| ...)`
ParsedField(raw, package_name, input) ==
    LET effective == IF raw.name # None THEN raw.name ELSE package_name
    IN  IF effective = None THEN None
        ELSE parse_exports_like_field(effective.v, input)

\* PackageJsonParser::parse_package_json_string, the maps in insertion order
parse_package_json_string(module_path, package_name, raw) ==
    [package_root |-> module_path,
     parsed_exports |-> ParsedField(raw, package_name, raw.exports),
     parsed_main |-> ParsedField(raw, package_name, raw.main),
     parsed_module |-> ParsedField(raw, package_name, raw.module),
     parsed_browser |-> ParsedField(raw, package_name, raw.browser),
     parsed_types |-> ParsedField(raw, package_name, raw.types),
     name |-> IF raw.name # None THEN raw.name ELSE package_name,
     raw |-> raw]

\* The orders in which a HashMap with these entries may iterate: each HashMap has
\* hash keys of its own.
IterationOrders(m) ==
    {p \in [1..Len(m) -> {m[i] : i \in 1..Len(m)}] :
        \A i, j \in 1..Len(m) : p[i] = p[j] => i = j}

FieldOrders(field) ==
    IF field # None /\ field.v.t = "Map"
    THEN {Some([t |-> "Map", m |-> p]) : p \in IterationOrders(field.v.m)}
    ELSE {field}

\* The values a PackageJson may have in memory: the maps of its fields in any
\* iteration order.
WithIterationOrders(pj) ==
    {[pj EXCEPT !.parsed_exports = e, !.parsed_main = m, !.parsed_module = o,
                !.parsed_browser = b, !.parsed_types = y] :
        e \in FieldOrders(pj.parsed_exports), m \in FieldOrders(pj.parsed_main),
        o \in FieldOrders(pj.parsed_module), b \in FieldOrders(pj.parsed_browser),
        y \in FieldOrders(pj.parsed_types)}

\* PackageJsonParser::parse_package_json_file: the values one call may build, or
\* the error it returns.
ParsedFile(file, module_path, package_name) ==
    IF file = None THEN {[ok |-> FALSE, error |-> "IoError"]}
    ELSE IF ~file.v.valid THEN {[ok |-> FALSE, error |-> "ParsePackageJsonFailed"]}
    ELSE {[ok |-> TRUE, package_json |-> pj] :
            pj \in WithIterationOrders(
                    parse_package_json_string(module_path, package_name, file.v.raw))}

parse_package_json_file(world, module_path, package_name) ==
    ParsedFile(ReadManifest(world, module_path), module_path, package_name)

\* ---- the steps of the default preset
\* A step that needs a package.json asks for it: the chain goes on when
\* get_or_parse_package_json has returned.
NoLookup == [t |-> "NoLookup"]
Lookup(module_path, package_name) ==
    [t |-> "Lookup", module_path |-> module_path, package_name |-> package_name]

\* A plausible slip: the node_modules directory of the nearest directory that has
\* one, as Node.js looks packages up.
find_node_modules_of_nearest_directory(from) ==
    LET a == Ancestors(from)
        holding == {i \in 1..Len(a) : is_dir(Join(a[i], NODE_MODULES))}
    IN  IF holding # {}
        THEN [ok |-> TRUE,
              path |-> Join(a[CHOOSE i \in holding : \A j \in holding : i <= j],
                            NODE_MODULES)]
        ELSE [ok |-> FALSE, error |-> "NodeModulesNotFound"]

\* PackageJsonParser::find_node_modules
find_node_modules(from) ==
    LET a == Ancestors(from)
        named == {i \in 1..Len(a) : FileName(a[i]) = NODE_MODULES}
    IN  IF named # {}
        THEN [ok |-> TRUE, path |-> a[CHOOSE i \in named : \A j \in named : i <= j]]
        ELSE IF is_dir(Join(from, NODE_MODULES))
             THEN [ok |-> TRUE, path |-> Join(from, NODE_MODULES)]
        ELSE [ok |-> FALSE, error |-> "NodeModulesNotFound"]

\* PackageJsonParser::find_package_json
find_package_json(from_directory) ==
    LET a == Ancestors(from_directory)
        found == {i \in 1..Len(a) : is_file(Join(a[i], PACKAGE_JSON))}
    IN  IF found # {}
        THEN [ok |-> TRUE,
              path |-> Join(a[CHOOSE i \in found : \A j \in found : i <= j],
                            PACKAGE_JSON)]
        ELSE [ok |-> FALSE, error |-> "PackageJsonNotFound"]

\* The ImplicitFileResolver of the default preset.
ImplicitExtensions == <<<<".", "j", "s">>, <<".", "c", "j", "s">>, <<".", "j", "s", "o", "n">>>>
ImplicitIndexes == <<<<"i", "n", "d", "e", "x", ".", "j", "s">>, <<"i", "n", "d", "e", "x", ".", "c", "j", "s">>, <<"i", "n", "d", "e", "x", ".", "j", "s", "o", "n">>>>

\* ImplicitFileResolver::try_resolve_implicitly
try_resolve_implicitly(self, path) ==
    LET with_extension == {i \in 1..Len(self.extensions) :
                                is_file(path \o self.extensions[i])}
        with_index == {i \in 1..Len(self.indexes) :
                                is_file(Join(path, self.indexes[i]))}
    IN  IF path # <<"/">> /\ with_extension # {} THEN
            Some(path \o self.extensions[
                    CHOOSE i \in with_extension : \A j \in with_extension : i <= j])
        ELSE IF with_index # {} THEN
            Some(Join(path, self.indexes[
                    CHOOSE i \in with_index : \A j \in with_index : i <= j]))
        ELSE None

\* `path.is_file()`, then the implicit file resolver
FileOrImplicit(implicit_file_resolver, path) ==
    IF is_file(path) THEN Some(path)
    ELSE IF implicit_file_resolver = None THEN None
    ELSE try_resolve_implicitly(implicit_file_resolver.v, path)

\* RelativePathResolver::call
RelativePathResolver(implicit_file_resolver, import_specifier, from, state, lk) ==
    IF ~StartsWith(import_specifier, <<".">>) THEN StepContinue(import_specifier, state)
    ELSE IF from = <<"/">> THEN StepError("FromPathHasNoParent")
    ELSE
        LET path == Join(Parent(from), import_specifier)
        IN  IF FileOrImplicit(implicit_file_resolver, path) # None
            THEN StepOk(FileOrImplicit(implicit_file_resolver, path).v)
            ELSE IF is_file(Join(path, PACKAGE_JSON)) THEN
                IF lk = NoLookup THEN Lookup(path, None)
                ELSE IF ~lk.ok THEN StepError(lk.error)
                ELSE IF lk.package_json.name # None
                     THEN StepContinue(lk.package_json.name.v, state)
                ELSE StepError("FileNotFound")
            ELSE StepError("FileNotFound")

\* HandleOptionalPeerDependenciesResolver::call
HandleOptionalPeerDependenciesResolver(import_specifier, from, state, lk) ==
    LET from_directory == IF is_dir(from) THEN from ELSE Parent(from)
        package_json == find_package_json(from_directory)
        name == get_npm_package_name(import_specifier)
    IN  IF ~package_json.ok THEN StepError(package_json.error)
        ELSE IF lk = NoLookup THEN Lookup(Parent(package_json.path), None)
        ELSE IF ~lk.ok THEN StepError(lk.error)
        ELSE
            IF ~IsOptionalPeer(lk.package_json.raw, name)
            THEN StepContinue(import_specifier, state)
            ELSE IF ~find_node_modules(from).ok
                 THEN StepError(find_node_modules(from).error)
            ELSE IF ~exists(Join(find_node_modules(from).path, name))
                 THEN StepError("PeerDependencyNotInstalled")
            ELSE StepContinue(import_specifier, state)

\* PackageJsonResolver::call
PackageJsonResolver(import_specifier, from, state, lk) ==
    LET package_name == get_npm_package_name(import_specifier)
    IN  IF ~find_node_modules(from).ok THEN StepError(find_node_modules(from).error)
        ELSE IF lk = NoLookup
             THEN Lookup(Join(find_node_modules(from).path, package_name),
                         Some(package_name))
        ELSE IF lk.ok THEN StepContinue(import_specifier, lk.package_json)
        ELSE StepError(lk.error)

\* PseudoNamespaceResolver::call
PseudoNamespaceResolver(import_specifier, from, state, lk) ==
    LET slash == Find(import_specifier, <<"/">>)
        scope == UpTo(import_specifier, slash)
        subpath == From(import_specifier, slash + 1)
        module_path == Join(state.package_root, subpath)
    IN  IF /\ slash >= 0
           /\ ~StartsWith(scope, <<"@">>)
           /\ ~ContainsChar(subpath, "/")
           /\ is_file(Join(module_path, PACKAGE_JSON))
        THEN IF lk = NoLookup
             THEN Lookup(module_path, Some(scope \o <<"/">> \o subpath))
             ELSE IF lk.ok THEN StepContinue(import_specifier, lk.package_json)
             ELSE StepContinue(import_specifier, state)
        ELSE StepContinue(import_specifier, state)

\* The field an ExportsResolver reads.
FieldOf(field_name, state) ==
    CASE field_name = "Exports" -> state.parsed_exports
      [] field_name = "Main" -> state.parsed_main
      [] field_name = "Module" -> state.parsed_module
      [] field_name = "Browser" -> state.parsed_browser
      [] field_name = "Types" -> state.parsed_types

\* ExportsResolver::call, from the innermost `if let` outwards: the probe of the
\* path, the path of the entry, the entry of the field.
ExportsProbed(found, import_specifier, state) ==
    IF found # None THEN StepOk(found.v) ELSE StepContinue(import_specifier, state)

ExportsResolved(implicit_file_resolver, path, import_specifier, state) ==
    IF path = None THEN StepContinue(import_specifier, state)
    ELSE ExportsProbed(FileOrImplicit(implicit_file_resolver, path.v),
                       import_specifier, state)

ExportsMatched(condition_names, implicit_file_resolver, entry, import_specifier, state) ==
    IF entry = None THEN StepContinue(import_specifier, state)
    ELSE ExportsResolved(implicit_file_resolver,
                         resolve_export(condition_names, entry, state.package_root),
                         import_specifier, state)

ExportsEntry(field, import_specifier, state) ==
    LET named == state.name # None /\ state.name.v = import_specifier
    IN  IF field.t = "Map" THEN match_export(field.m, import_specifier)
        ELSE IF ~named THEN None
        ELSE IF field.t = "Filename" THEN [t |-> "Filename", s |-> field.s]
        ELSE [t |-> "Conditional", m |-> field.m]

\* A plausible slip: the field is read whether or not there is an exports field.
ExportsResolverEveryField(field_name, condition_names, implicit_file_resolver, import_specifier, from, state) ==
    IF FieldOf(field_name, state) = None
    THEN StepContinue(import_specifier, state)
    ELSE ExportsMatched(condition_names, implicit_file_resolver,
                        ExportsEntry(FieldOf(field_name, state).v, import_specifier,
                                     state),
                        import_specifier, state)

ExportsResolver(field_name, condition_names, implicit_file_resolver, import_specifier, from, state) ==
    IF field_name # "Exports" /\ state.parsed_exports # None
    THEN StepContinue(import_specifier, state)
    ELSE IF FieldOf(field_name, state) = None
    THEN StepContinue(import_specifier, state)
    ELSE ExportsMatched(condition_names, implicit_file_resolver,
                        ExportsEntry(FieldOf(field_name, state).v, import_specifier,
                                     state),
                        import_specifier, state)

\* A plausible slip: the listed file is returned when it is on disk only.
files_resolver_checking_disk(import_specifier, from, state) ==
    LET named == state.name # None /\ state.name.v = import_specifier
        files == state.raw.files
        index_js == Join(state.package_root, <<"i", "n", "d", "e", "x", ".", "j", "s">>)
        index_cjs == Join(state.package_root, <<"i", "n", "d", "e", "x", ".", "c", "j", "s">>)
    IN  IF named /\ files # None /\ <<"i", "n", "d", "e", "x", ".", "j", "s">> \in files.v /\ is_file(index_js)
        THEN StepOk(index_js)
        ELSE IF named /\ files # None /\ <<"i", "n", "d", "e", "x", ".", "c", "j", "s">> \in files.v /\ is_file(index_cjs)
        THEN StepOk(index_cjs)
        ELSE StepContinue(import_specifier, state)

\* files_resolver
files_resolver(import_specifier, from, state) ==
    LET named == state.name # None /\ state.name.v = import_specifier
        files == state.raw.files
    IN  IF named /\ files # None /\ <<"i", "n", "d", "e", "x", ".", "j", "s">> \in files.v
        THEN StepOk(Join(state.package_root, <<"i", "n", "d", "e", "x", ".", "j", "s">>))
        ELSE IF named /\ files # None /\ <<"i", "n", "d", "e", "x", ".", "c", "j", "s">> \in files.v
        THEN StepOk(Join(state.package_root, <<"i", "n", "d", "e", "x", ".", "c", "j", "s">>))
        ELSE StepContinue(import_specifier, state)

\* index_resolver
index_resolver(import_specifier, from, state) ==
    IF /\ state.name # None /\ state.name.v = import_specifier
       /\ is_file(Join(state.package_root, <<"i", "n", "d", "e", "x", ".", "j", "s">>))
    THEN StepOk(Join(state.package_root, <<"i", "n", "d", "e", "x", ".", "j", "s">>))
    ELSE StepContinue(import_specifier, state)

\* A plausible slip: the file probe left to packages without an exports field.
FileResolverUnlessExports(implicit_file_resolver, import_specifier, from, state) ==
    LET prefix == state.name.v \o <<"/">>
        path == Join(state.package_root, From(import_specifier, Len(prefix)))
    IN  IF /\ state.parsed_exports = None
           /\ state.name # None
           /\ StartsWith(import_specifier, prefix)
           /\ FileOrImplicit(implicit_file_resolver, path) # None
        THEN StepOk(FileOrImplicit(implicit_file_resolver, path).v)
        ELSE StepContinue(import_specifier, state)

\* FileResolver::call
FileResolver(implicit_file_resolver, import_specifier, from, state) ==
    LET prefix == state.name.v \o <<"/">>
        path == Join(state.package_root, From(import_specifier, Len(prefix)))
    IN  IF /\ state.name # None
           /\ StartsWith(import_specifier, prefix)
           /\ FileOrImplicit(implicit_file_resolver, path) # None
        THEN StepOk(FileOrImplicit(implicit_file_resolver, path).v)
        ELSE StepContinue(import_specifier, state)

\* get_default_es_resolver_with_package_json_parser: the steps chained onto
\* new_chain, in the order of the `.chain(...)` calls.
DefaultPreset ==
    <<"RelativePathResolver", "HandleOptionalPeerDependenciesResolver",
      "PackageJsonResolver", "PseudoNamespaceResolver", "Exports", "Module",
      "Browser", "Main", "files_resolver", "index_resolver", "FileResolver">>

\* get_typescript_resolver_with_package_json_parser
TypescriptPreset ==
    <<"RelativePathResolver", "HandleOptionalPeerDependenciesResolver",
      "PackageJsonResolver", "PseudoNamespaceResolver", "Exports", "Module",
      "Browser", "Main", "Types", "files_resolver", "index_resolver",
      "FileResolver">>
TypescriptExtensions ==
    ImplicitExtensions \o <<<<".", "t", "s">>, <<".", "t", "s", "x">>, <<".", "d", ".", "t", "s">>>>
TypescriptIndexes ==
    ImplicitIndexes \o <<<<"i", "n", "d", "e", "x", ".", "t", "s">>, <<"i", "n", "d", "e", "x", ".", "t", "s", "x">>,
                         <<"i", "n", "d", "e", "x", ".", "d", ".", "t", "s">>>>

\* get_strict_esm_resolver_with_package_json_parser
StrictEsmPreset ==
    <<"RelativePathResolver", "PackageJsonResolver", "Exports", "Module", "Main",
      "files_resolver", "FileResolver">>

\* The resolvers of presets.rs: the steps of the chain, the condition names and the
\* implicit file resolver their steps are constructed with.
Preset(name) ==
    CASE name = "default" ->
            [steps |-> DefaultPreset,
             condition_names |-> get_default_condition_names,
             implicit_file_resolver |->
                Some([extensions |-> ImplicitExtensions, indexes |-> ImplicitIndexes])]
      [] name = "typescript" ->
            [steps |-> TypescriptPreset,
             condition_names |-> get_default_condition_names \o <<<<"t", "y", "p", "e", "s">>>>,
             implicit_file_resolver |->
                Some([extensions |-> TypescriptExtensions,
                      indexes |-> TypescriptIndexes])]
      [] name = "strict_esm" ->
            [steps |-> StrictEsmPreset,
             condition_names |-> <<IMPORT, DEFAULT>>,
             implicit_file_resolver |-> None]

\* ChainStep::call of the k-th step of a preset.
PresetStep(preset, k, import_specifier, from, state, lk) ==
    LET step == preset.steps[k]
    IN  CASE step = "RelativePathResolver" ->
                RelativePathResolver(preset.implicit_file_resolver, import_specifier,
                                     from, state, lk)
          [] step = "HandleOptionalPeerDependenciesResolver" ->
                HandleOptionalPeerDependenciesResolver(import_specifier, from, state, lk)
          [] step = "PackageJsonResolver" ->
                PackageJsonResolver(import_specifier, from, state, lk)
          [] step = "PseudoNamespaceResolver" ->
                PseudoNamespaceResolver(import_specifier, from, state, lk)
          [] step \in {"Exports", "Module", "Browser", "Main", "Types"} ->
                ExportsResolver(step, preset.condition_names,
                                preset.implicit_file_resolver, import_specifier,
                                from, state)
          [] step = "files_resolver" -> files_resolver(import_specifier, from, state)
          [] step = "index_resolver" -> index_resolver(import_specifier, from, state)
          [] step = "FileResolver" ->
                FileResolver(preset.implicit_file_resolver, import_specifier, from,
                             state)

\* ChainStep::call of the k-th step of the default preset.
DefaultPresetStep(k, import_specifier, from, state, lk) ==
    PresetStep(Preset("default"), k, import_specifier, from, state, lk)

\* Resolver::resolve on the result of the outermost link, with the filesystem's
\* canonicalize.
ResolveOutcome(res, from) ==
    CASE res.t = "Ok" ->
            IF Canonicalize(res.path).ok
            THEN [ok |-> TRUE, path |-> Canonicalize(res.path).path]
            ELSE [ok |-> FALSE, error |-> "CanonicalizeRelativePathFailed",
                  path |-> from]
      [] res.t = "Continue" ->
            [ok |-> FALSE, error |-> "FailedToResolve",
             import_specifier |-> res.import_specifier, from |-> from]
      [] res.t = "Error" -> [ok |-> FALSE, error |-> res.error]

\* The links of the chain from step k on, run until a step asks for a package.json
\* or the chain ends: the pending request, or what Resolver::resolve returns.
\* ChainAfter is the match of Chain::call on the result r of step k.
RECURSIVE RunChain(_, _, _, _, _)
ChainAfter(k, r, import_specifier, from, state) ==
    IF r.t = "Lookup" THEN
        [t |-> "Lookup", step |-> k, import_specifier |-> import_specifier,
         state |-> state, module_path |-> r.module_path,
         package_name |-> r.package_name]
    ELSE IF r.t = "Continue" /\ k < Len(DefaultPreset) THEN
        RunChain(k + 1, r.import_specifier, from, r.state, NoLookup)
    ELSE [t |-> "Returned", result |-> ResolveOutcome(r, from)]

RunChain(k, import_specifier, from, state, lk) ==
    ChainAfter(k, DefaultPresetStep(k, import_specifier, from, state, lk),
               import_specifier, from, state)

\* ---- the shared cache and the threads that use it
SHARDS == 8

\* The walkers of generate_report's par_iter that share the parser and the resolver.
Threads == {"t1", "t2"}

\* How many calls a thread makes.
MaxCalls == 1

\* RandomState::hash_one: some function of the path, fixed when the parser is made.
hash_one(seed, module_path) == seed * Byte(module_path[Len(module_path)])

shard_index(seed, module_path) == hash_one(seed, module_path) % SHARDS

\* A plausible slip: the entry is put into the shard before its fields are
\* normalized.
CacheInsertBeforeNormalization(shard, module_path, package_json) ==
    (module_path :> [package_json EXCEPT
                        !.parsed_exports = None, !.parsed_main = None,
                        !.parsed_module = None, !.parsed_browser = None,
                        !.parsed_types = None]) @@ shard

\* A plausible slip: the insert replaces the shard by one that holds the new entry
\* only.
CacheInsertEvicting(shard, module_path, package_json) == (module_path :> package_json)

\* `self.parsed[shard_index].write().unwrap().insert(module_path, package_json)`
CacheInsert(shard, module_path, package_json) ==
    (module_path :> package_json) @@ shard

\* The (module_path, package_name) pairs the callers of get_or_parse_package_json
\* pass: a directory of node_modules with its name (analyze_package, the
\* package.json loader) or with no name (the optional-peer gate, a relative import
\* of the directory).
GetOrParseCalls ==
    UNION {{[module_path |-> d, package_name |-> h] : h \in {None, Some(FileName(d))}} :
              d \in {DirFoo, DirBar, DirBaz}}

\* The (import_specifier, from) pairs the walkers resolve.
ResolveCalls ==
    {[import_specifier |-> <<"f", "o", "o">>, from |-> FsBarI],
     [import_specifier |-> <<"f", "o", "o", "/", "l", "i", "b", "/", "u", ".", "j", "s">>, from |-> FsBarI],
     [import_specifier |-> <<"o", "p", "t">>, from |-> FsBarI],
     [import_specifier |-> <<".">>, from |-> FsBarI],
     [import_specifier |-> <<"b", "a", "r">>, from |-> FsFooX],
     [import_specifier |-> <<"b", "a", "z">>, from |-> FsFooX]}

IdleThread == [pc |-> "idle", calls |-> 0]

InitCache ==
    /\ cWorld \in [foo : FooManifests, seed : {0, 1}]
    /\ parsed = [i \in 0..(SHARDS - 1) |-> <<>>]
    /\ th = [t \in Threads |-> IdleThread]
    /\ returned = {}
    /\ resolved = {}

\* No parser in use.
IdleCache ==
    /\ cWorld = [t |-> "idle"]
    /\ parsed = <<>>
    /\ th = <<>>
    /\ returned = {}
    /\ resolved = {}

\* The thread after a call of Resolver::resolve or of get_or_parse_package_json
\* made outside a chain has returned.
AfterCall(t) == [pc |-> "idle", calls |-> th[t].calls + 1]

\* What a thread does with the outcome of RunChain: it calls
\* get_or_parse_package_json for the step that asked, or resolve returns.
Advance(t, call, r) ==
    IF r.t = "Lookup" THEN
        /\ th' = [th EXCEPT ![t] =
                    [pc |-> "read", calls |-> th[t].calls, call |-> call,
                     step |-> r.step, import_specifier |-> r.import_specifier,
                     state |-> r.state, module_path |-> r.module_path,
                     package_name |-> r.package_name]]
        /\ UNCHANGED resolved
    ELSE
        /\ th' = [th EXCEPT ![t] = AfterCall(t)]
        /\ resolved' = resolved \cup
                {[thread |-> t, n |-> th[t].calls,
                  import_specifier |-> call.import_specifier, from |-> call.from,
                  result |-> r.result]}

\* get_or_parse_package_json returns lk to its caller.
Return(t, lk, miss) ==
    /\ returned' = returned \cup
            {[thread |-> t, n |-> th[t].calls, step |-> th[t].step,
              module_path |-> th[t].module_path,
              package_name |-> th[t].package_name, miss |-> miss, result |-> lk]}
    /\ IF th[t].step = 0
       THEN /\ th' = [th EXCEPT ![t] = AfterCall(t)]
            /\ UNCHANGED resolved
       ELSE Advance(t, th[t].call,
                    RunChain(th[t].step, th[t].import_specifier, th[t].call.from,
                             th[t].state, lk))

\* A caller outside a chain (analyze_package) calls get_or_parse_package_json.
CallGetOrParse(t) ==
    /\ th[t].pc = "idle"
    /\ th[t].calls < MaxCalls
    /\ \E c \in GetOrParseCalls :
        th' = [th EXCEPT ![t] =
                [pc |-> "read", calls |-> th[t].calls, step |-> 0,
                 module_path |-> c.module_path, package_name |-> c.package_name]]
    /\ UNCHANGED <<cWorld, parsed, returned, resolved, notCache>>

\* A walker calls Resolver::resolve: the chain runs up to its first
\* get_or_parse_package_json.
CallResolve(t) ==
    /\ th[t].pc = "idle"
    /\ th[t].calls < MaxCalls
    /\ \E c \in ResolveCalls :
        Advance(t, c, RunChain(1, c.import_specifier, c.from, "()", NoLookup))
    /\ UNCHANGED <<cWorld, parsed, returned, notCache>>

\* get_or_parse_package_json under the read lock of the shard: a hit returns the
\* entry; after a miss the lock is dropped and the file is read and normalized.
GetOrParseRead(t) ==
    /\ th[t].pc = "read"
    /\ LET module_path == th[t].module_path
           shard == parsed[shard_index(cWorld.seed, module_path)]
       IN  IF module_path \in DOMAIN shard THEN
                Return(t, [ok |-> TRUE, package_json |-> shard[module_path]], FALSE)
           ELSE \E p \in parse_package_json_file(cWorld, module_path,
                                                 th[t].package_name) :
                IF p.ok THEN
                    /\ th' = [th EXCEPT ![t] =
                                [th[t] EXCEPT !.pc = "insert"] @@
                                [package_json |-> p.package_json]]
                    /\ UNCHANGED <<returned, resolved>>
                ELSE Return(t, p, TRUE)
    /\ UNCHANGED <<cWorld, parsed, notCache>>

\* get_or_parse_package_json under the write lock of the shard: the insert, and
\* the return of the handle just built.
GetOrParseInsert(t) ==
    /\ th[t].pc = "insert"
    /\ LET module_path == th[t].module_path
           i == shard_index(cWorld.seed, module_path)
       IN  parsed' = [parsed EXCEPT
                        ![i] = CacheInsert(@, module_path, th[t].package_json)]
    /\ Return(t, [ok |-> TRUE, package_json |-> th[t].package_json], TRUE)
    /\ UNCHANGED <<cWorld, notCache>>

NextCache ==
    \E t \in Threads : CallGetOrParse(t) \/ GetOrParseRead(t) \/ GetOrParseInsert(t)

NextResolve ==
    \E t \in Threads : CallResolve(t) \/ GetOrParseRead(t) \/ GetOrParseInsert(t)

\* ---- the entrypoints of a package
\* A panic of the thread: `unwrap` on an Err.
Panic == [t |-> "Panic"]

\* `self.package_root.join(filename).canonicalize().unwrap()`
CanonicalEntrypoint(package_root, filename) ==
    IF Canonicalize(Join(package_root, filename)).ok
    THEN Some(Canonicalize(Join(package_root, filename)).path)
    ELSE Panic

\* PackageJson::pick_conditional_entrypoint, at condition_names[i..]: Some(path),
\* None, or the panic of the unwrap.
RECURSIVE PickFrom(_, _, _, _)
PickFrom(package_root, condition_names, conditional, i) ==
    IF i > Len(condition_names) THEN None
    ELSE
        LET entrypoint == Get(conditional, condition_names[i])
        IN  IF entrypoint = None THEN
                PickFrom(package_root, condition_names, conditional, i + 1)
            ELSE IF entrypoint.t = "Filename" THEN
                IF ~ContainsChar(entrypoint.s, "*")
                THEN CanonicalEntrypoint(package_root, entrypoint.s)
                ELSE PickFrom(package_root, condition_names, conditional, i + 1)
            ELSE PickFrom(package_root, condition_names, entrypoint.m, 1)

pick_conditional_entrypoint(package_root, condition_names, conditional) ==
    PickFrom(package_root, condition_names, conditional, 1)

\* The closure given to filter_map in the Map arm of get_entrypoints.
MapEntrypoint(package_root, condition_names, v) ==
    IF v.t = "Filename" THEN
        IF ~ContainsChar(v.s, "*") THEN CanonicalEntrypoint(package_root, v.s)
        ELSE None
    ELSE pick_conditional_entrypoint(package_root, condition_names, v.m)

\* `.collect()` of the paths that are Some, in the order they were produced; a
\* panic while producing them ends the call.
CollectEntrypoints(options) ==
    IF \E i \in 1..Len(options) : options[i] = Panic THEN Panic
    ELSE LET some == SelectSeq(options, LAMBDA o : o # None)
         IN  [t |-> "Ok", list |-> [i \in 1..Len(some) |-> some[i].v]]

\* PackageJson::get_entrypoints. own_entry is what `resolver.resolve(name,
\* &self.package_root)` returns.
get_entrypoints(package_json, condition_names, own_entry) ==
    IF package_json.parsed_exports # None THEN
        LET exports == package_json.parsed_exports.v
        IN  IF exports.t = "Filename" THEN
                CollectEntrypoints(
                    <<CanonicalEntrypoint(package_json.package_root, exports.s)>>)
            ELSE IF exports.t = "Map" THEN
                CollectEntrypoints(
                    [i \in 1..Len(exports.m) |->
                        MapEntrypoint(package_json.package_root, condition_names,
                                      exports.m[i].v)])
            ELSE CollectEntrypoints(
                    <<pick_conditional_entrypoint(package_json.package_root,
                                                  condition_names, exports.m)>>)
    ELSE IF package_json.name # None THEN
        IF own_entry.ok THEN [t |-> "Ok", list |-> <<own_entry.path>>]
        ELSE [t |-> "Err", error |-> own_entry]
    ELSE [t |-> "Err",
          error |-> [ok |-> FALSE, error |-> "FailedToResolve",
                     import_specifier |-> <<"<", "u", "n", "k", "n", "o", "w", "n", ">">>,
                     from |-> package_json.package_root]]

\* Resolver::resolve of the default preset while the cache holds package_json for
\* its directory, as it does after analyze_package has loaded it: a lookup of that
\* directory is a hit, a lookup of another directory reads the file.
RECURSIVE ResolveFromCache(_, _, _, _)
ResolveFromCache(world, package_json, from, r) ==
    IF r.t = "Returned" THEN {r.result}
    ELSE IF r.module_path = package_json.package_root THEN
        ResolveFromCache(world, package_json, from,
            RunChain(r.step, r.import_specifier, from, r.state,
                     [ok |-> TRUE, package_json |-> package_json]))
    ELSE UNION {ResolveFromCache(world, package_json, from,
                    RunChain(r.step, r.import_specifier, from, r.state, lk)) :
                lk \in parse_package_json_file(world, r.module_path, r.package_name)}

\* What `resolver.resolve(name, &self.package_root)` may return; the call is made
\* for a package with a name only.
ResolveOwnName(world, package_json) ==
    IF package_json.name = None THEN {[ok |-> FALSE, error |-> "NotCalled"]}
    ELSE ResolveFromCache(world, package_json, package_json.package_root,
            RunChain(1, package_json.name.v, package_json.package_root, "()",
                     NoLookup))

\* ---- the package.json files of foo whose entrypoints are listed
ExportsOf(name, exports) ==
    [valid |-> TRUE, raw |-> [EmptyRaw EXCEPT !.name = name, !.exports = Some(exports)]]

\* exports that name no file for the conditions import, module, default: the empty
\* object, wildcard patterns only, and the condition require only
NoEntrypointManifests ==
    {ManifestFooWildcards,
     ExportsOf(Some(<<"f", "o", "o">>), JObject(<<>>)),
     ExportsOf(Some(<<"f", "o", "o">>), JObject(<<[k |-> REQUIRE, v |-> JString(<<".", "/", "x", ".", "j", "s">>)]>>)),
     ExportsOf(Some(<<"f", "o", "o">>), JObject(<<
        [k |-> <<".">>, v |-> JObject(<<[k |-> REQUIRE, v |-> JString(<<".", "/", "x", ".", "j", "s">>)]>>)]>>))}

EntryManifests ==
    FooManifests \cup NoEntrypointManifests \cup
    {ExportsOf(Some(<<"f", "o", "o">>), JString(<<".", "/", "m", ".", "j", "s">>)),
     \* a target that is not on disk
     ExportsOf(Some(<<"f", "o", "o">>), JString(<<".", "/", "g", "o", "n", "e", ".", "j", "s">>)),
     ExportsOf(Some(<<"f", "o", "o">>), JObject(<<[k |-> <<".">>, v |-> JString(<<".", "/", "m", ".", "j", "s">>)],
                                      [k |-> <<".", "/", "x">>, v |-> JString(<<".", "/", "x", ".", "j", "s">>)]>>)),
     \* the first configured condition holds a nested map that offers none
     ExportsOf(Some(<<"f", "o", "o">>), JObject(<<
        [k |-> IMPORT, v |-> JObject(<<[k |-> NODE, v |-> JString(<<".", "/", "x", ".", "j", "s">>)]>>)],
        [k |-> DEFAULT, v |-> JString(<<".", "/", "m", ".", "j", "s">>)]>>)),
     \* the first configured condition holds a wildcard target
     ExportsOf(Some(<<"f", "o", "o">>), JObject(<<
        [k |-> IMPORT, v |-> JString(<<".", "/", "*", ".", "j", "s">>)],
        [k |-> DEFAULT, v |-> JString(<<".", "/", "m", ".", "j", "s">>)]>>)),
     ExportsOf(None, JObject(<<
        [k |-> <<".">>, v |-> JObject(<<[k |-> REQUIRE, v |-> JString(<<".", "/", "x", ".", "j", "s">>)]>>)]>>)),
     ExportsOf(Some(<<"f", "o", "o">>), JObject(<<
        [k |-> <<".">>, v |-> JObject(<<[k |-> IMPORT, v |-> JString(<<".", "/", "g", "o", "n", "e", ".", "j", "s">>)]>>)]>>)),
     \* dotted keys next to a key without a dot, a dotted key without a slash, and
     \* a dotted object inside a dotted key
     ExportsOf(Some(<<"f", "o", "o">>), JObject(<<[k |-> <<".">>, v |-> JString(<<".", "/", "m", ".", "j", "s">>)],
                                      [k |-> IMPORT, v |-> JString(<<".", "/", "x", ".", "j", "s">>)]>>)),
     ExportsOf(Some(<<"f", "o", "o">>), JObject(<<[k |-> <<".", "x">>, v |-> JString(<<".", "/", "x", ".", "j", "s">>)]>>)),
     ExportsOf(Some(<<"f", "o", "o">>), JObject(<<
        [k |-> <<".", "/", "a">>, v |-> JObject(<<[k |-> <<".", "/", "l", "i", "b">>, v |-> JString(<<".", "/", "x", ".", "j", "s">>)]>>)]>>)),
     \* no exports: a main field that names no file, and no field at all
     [valid |-> TRUE, raw |-> [EmptyRaw EXCEPT !.name = Some(<<"f", "o", "o">>),
                                               !.main = Some(JString(<<".", "/", "g", "o", "n", "e", ".", "j", "s">>))]],
     [valid |-> TRUE, raw |-> EmptyRaw]}

InitEntrypoints ==
    /\ epIn \in [foo : EntryManifests, package_name : {None, Some(<<"f", "o", "o">>)},
                 condition_names : ConditionLists]
    /\ epOut = [t |-> "pending"]

\* No package is being analyzed.
IdleEntrypoints ==
    /\ epIn = [t |-> "idle"]
    /\ epOut = [t |-> "idle"]

\* analyze_package from its entry to its `for entrypoint in ...` loop:
\* get_or_parse_package_json on an empty cache, then get_entrypoints.
GetEntrypoints ==
    /\ epOut.t = "pending"
    /\ \E p \in parse_package_json_file(epIn, DirFoo, epIn.package_name) :
        IF ~p.ok THEN epOut' = [t |-> "Err", error |-> p, at |-> "get_or_parse_package_json"]
        ELSE \E own_entry \in ResolveOwnName(epIn, p.package_json) :
                epOut' = get_entrypoints(p.package_json, epIn.condition_names, own_entry)
                            @@ [at |-> "get_entrypoints", package_json |-> p.package_json,
                                own_entry |-> own_entry]
    /\ UNCHANGED <<epIn, notEntrypoints>>

NextEntrypoints == GetEntrypoints

\* ---- one call of Resolver::resolve, step by step, for each resolver of presets.rs
PresetNames == {"default", "typescript", "strict_esm"}

\* The package.json files of foo the presets are run on: with and without an
\* exports field next to module, browser, main and types, and with a files field.
ManifestFooExportsAndFields ==
    [valid |-> TRUE,
     raw |-> [EmptyRaw EXCEPT
                !.name = Some(<<"f", "o", "o">>),
                !.exports = Some(JObject(<<[k |-> <<".", "/", "x">>, v |-> JString(<<".", "/", "x", ".", "j", "s">>)]>>)),
                !.module = Some(JString(<<".", "/", "m", ".", "j", "s">>)),
                !.browser = Some(JString(<<".", "/", "x", ".", "j", "s">>)),
                !.main = Some(JString(<<".", "/", "m", ".", "j", "s">>)),
                !.types = Some(JString(<<".", "/", "m", ".", "j", "s">>))]]
ManifestFooModuleAndMain ==
    [valid |-> TRUE,
     raw |-> [EmptyRaw EXCEPT
                !.name = Some(<<"f", "o", "o">>),
                !.module = Some(JString(<<".", "/", "m", ".", "j", "s">>)),
                !.main = Some(JString(<<".", "/", "x", ".", "j", "s">>))]]
ManifestFooBrowser ==
    [valid |-> TRUE,
     raw |-> [EmptyRaw EXCEPT
                !.name = Some(<<"f", "o", "o">>), !.browser = Some(JString(<<".", "/", "x", ".", "j", "s">>))]]
ManifestFooMain ==
    [valid |-> TRUE,
     raw |-> [EmptyRaw EXCEPT
                !.name = Some(<<"f", "o", "o">>), !.main = Some(JString(<<".", "/", "m">>))]]
ManifestFooTypes ==
    [valid |-> TRUE,
     raw |-> [EmptyRaw EXCEPT
                !.name = Some(<<"f", "o", "o">>), !.types = Some(JString(<<".", "/", "m", ".", "j", "s">>))]]
ManifestFooFiles ==
    [valid |-> TRUE,
     raw |-> [EmptyRaw EXCEPT
                !.name = Some(<<"f", "o", "o">>), !.files = Some({<<"i", "n", "d", "e", "x", ".", "j", "s">>, <<"m", ".", "j", "s">>})]]

PresetManifests ==
    {ManifestFooConditions, ManifestFooWildcards, ManifestFooInvalid,
     ManifestFooExportsAndFields, ManifestFooModuleAndMain, ManifestFooBrowser,
     ManifestFooMain, ManifestFooTypes, ManifestFooFiles}

\* The (import_specifier, from) pairs resolved.
PresetCalls ==
    {[import_specifier |-> <<"f", "o", "o">>, from |-> FsBarI],
     [import_specifier |-> <<"f", "o", "o", "/", "x", ".", "j", "s">>, from |-> FsBarI],
     [import_specifier |-> <<"f", "o", "o", "/", "x">>, from |-> FsBarI],
     [import_specifier |-> <<"f", "o", "o", "/", "m">>, from |-> FsBarI],
     [import_specifier |-> <<"q", "u", "x">>, from |-> FsBarI],
     [import_specifier |-> <<".", "/", "i">>, from |-> FsBarI],
     [import_specifier |-> <<"o", "p", "t">>, from |-> FsBarI],
     \* from a file of foo, which holds its own copy of bar; from that copy; from
     \* the directory that holds node_modules; a package that is not installed
     [import_specifier |-> <<"b", "a", "r">>, from |-> FsFooX],
     [import_specifier |-> <<"q", "u", "x">>, from |-> FsFooBarI],
     [import_specifier |-> <<"q", "u", "x">>, from |-> <<"/">>],
     [import_specifier |-> <<"b", "a", "z">>, from |-> FsBarI]}

InitPreset ==
    /\ pIn \in [preset : PresetNames, foo : PresetManifests, call : PresetCalls]
    /\ pRun = [k |-> 1, import_specifier |-> pIn.call.import_specifier, state |-> "()"]
    /\ pLog = <<>>
    /\ pOut = [t |-> "pending"]

\* No resolver in use.
IdlePreset ==
    /\ pIn = [t |-> "idle"]
    /\ pRun = [t |-> "idle"]
    /\ pLog = <<>>
    /\ pOut = [t |-> "idle"]

\* What the step about to be called may return: a step that reads a package.json
\* gets it from a parser that has not parsed it before.
CallResults ==
    LET preset == Preset(pIn.preset)
        first == PresetStep(preset, pRun.k, pRun.import_specifier, pIn.call.from,
                            pRun.state, NoLookup)
    IN  IF first.t # "Lookup" THEN {first}
        ELSE {PresetStep(preset, pRun.k, pRun.import_specifier, pIn.call.from,
                         pRun.state, lk) :
                lk \in parse_package_json_file(pIn, first.module_path,
                                               first.package_name)}

\* Chain::call for one link: the step is called; on Continue the next link gets
\* the specifier and the state the step returned, otherwise, and after the last
\* link, Resolver::resolve returns.
CallStep ==
    /\ pOut.t = "pending"
    /\ \E r \in CallResults :
        /\ pLog' = Append(pLog, [step |-> Preset(pIn.preset).steps[pRun.k],
                                 import_specifier |-> pRun.import_specifier,
                                 state |-> pRun.state, result |-> r])
        /\ IF r.t = "Continue" /\ pRun.k < Len(Preset(pIn.preset).steps)
           THEN /\ pRun' = [k |-> pRun.k + 1, import_specifier |-> r.import_specifier,
                            state |-> r.state]
                /\ UNCHANGED pOut
           ELSE /\ pOut' = [t |-> "returned",
                            result |-> ResolveOutcome(r, pIn.call.from)]
                /\ UNCHANGED pRun
    /\ UNCHANGED <<pIn, notPreset>>

NextPreset == CallStep

-----------------------------------------------------------------------------
(* Claims about the report aggregator                                        *)

Names(list) == [i \in 1..Len(list) |-> list[i].package_name]

\* Number of positions of list holding x.
Count(list, x) == Cardinality({i \in 1..Len(list) : list[i] = x})

\* The bucket the rule of the claim assigns to an Ok analysis.
ExpectedBucket(a) ==
    IF a.is_entry_esm /\ a.transitive_commonjs_dependencies # {} THEN "with_cjs"
    ELSE IF a.is_entry_esm /\ a.esm_missing_js_file_extensions # {} THEN "with_ext"
    ELSE IF a.is_entry_esm THEN "esm"
    ELSE "cjs"

BucketNames(r, b) ==
    CASE b = "with_cjs" -> Names(r.with_commonjs_dependencies)
      [] b = "with_ext" -> Names(r.with_missing_js_file_extensions)
      [] b = "esm" -> r.esm
      [] b = "cjs" -> r.cjs

Buckets == {"with_cjs", "with_ext", "esm", "cjs"}

\* C1: every Ok(analysis) of the input adds its package_name to exactly one of the
\* four lists esm, cjs, with_commonjs_dependencies, with_missing_js_file_extensions,
\* the one chosen by the rule (CJS-deps first, then missing extensions, then esm,
\* else cjs): each list holds a name exactly as often as the input holds an Ok
\* analysis of that name which the rule sends to that list.
C1_ExactlyOneBucket ==
    rpc = "done" =>
        \A b \in Buckets : \A n \in ReportNames :
            Count(BucketNames(report, b), n) =
                Cardinality({i \in 1..Len(analyses) :
                    /\ analyses[i].ok
                    /\ analyses[i].analysis.package_name = n
                    /\ ExpectedBucket(analyses[i].analysis) = b})

\* An analysis with both sets non-empty was aggregated and sits in
\* with_commonjs_dependencies only.
C1_Witness ==
    /\ rpc = "done"
    /\ \E i \in 1..Len(analyses) :
        /\ analyses[i].ok
        /\ analyses[i].analysis.is_entry_esm
        /\ analyses[i].analysis.transitive_commonjs_dependencies # {}
        /\ analyses[i].analysis.esm_missing_js_file_extensions # {}
        /\ Count(Names(report.with_commonjs_dependencies),
                 analyses[i].analysis.package_name) = 1
        /\ Count(Names(report.with_missing_js_file_extensions),
                 analyses[i].analysis.package_name) = 0

\* The lists that hold the elements of list in some order.
Orderings(list) ==
    {[i \in 1..Len(list) |-> list[f[i]]] :
        f \in {g \in [1..Len(list) -> 1..Len(list)] :
                  \A i, j \in 1..Len(list) : g[i] = g[j] => i = j}}

\* C12: into_report gives the same report for every order of the same per-package
\* results: all six lists and the total are equal.
C12_ReportOrderIndependent ==
    rpc = "done" =>
        \A other \in Orderings(analyses) : into_report(other) = report

\* A list of names is in ascending order of its bytes; a list of records is in
\* ascending order of the lower-cased package_name.
AscendingNames(list) ==
    \A i, j \in 1..Len(list) : i < j => ~StrLess(list[j], list[i])
AscendingLowerNames(list) ==
    \A i, j \in 1..Len(list) :
        i < j => ~StrLess(ToLowercase(list[j].package_name),
                          ToLowercase(list[i].package_name))

\* C22: in every report returned by into_report, esm and cjs are in ascending
\* byte-wise order, and with_commonjs_dependencies,
\* with_missing_js_file_extensions and parse_errors are in ascending order of the
\* lower-cased package_name.
C22_ReportListsSorted ==
    rpc = "done" =>
        /\ AscendingNames(report.esm)
        /\ AscendingNames(report.cjs)
        /\ AscendingLowerNames(report.with_commonjs_dependencies)
        /\ AscendingLowerNames(report.with_missing_js_file_extensions)
        /\ AscendingLowerNames(report.parse_errors)

\* Two ESM packages given as a, B are reported as B, a: upper case sorts first.
C22_Witness ==
    /\ rpc = "done"
    /\ Len(analyses) = 2
    /\ analyses[1].ok /\ analyses[1].analysis.package_name = <<"a">>
    /\ report.esm = <<<<"B">>, <<"a">>>>

\* The package names of the entries of the six lists, list after list.
ReportedNames(r) ==
    r.esm \o r.cjs
        \o [i \in 1..Len(r.with_commonjs_dependencies) |->
                r.with_commonjs_dependencies[i].package_name]
        \o [i \in 1..Len(r.with_missing_js_file_extensions) |->
                r.with_missing_js_file_extensions[i].package_name]
        \o [i \in 1..Len(r.resolve_errors) |-> r.resolve_errors[i].package_name]
        \o [i \in 1..Len(r.parse_errors) |-> r.parse_errors[i].package_name]

ResultName(res) == IF res.ok THEN res.analysis.package_name ELSE res.package_name

Occurrences(names, n) == Cardinality({i \in 1..Len(names) : names[i] = n})

\* C23: in every report returned by into_report, total is the length of the input
\* list, Err elements counted, and the six lists together hold exactly total
\* entries: each package name is listed as many times as it occurs in the input.
C23_TotalCountsEveryResult ==
    rpc = "done" =>
        /\ report.total = Len(analyses)
        /\ Len(ReportedNames(report)) = report.total
        /\ \A n \in ReportNames :
              Occurrences(ReportedNames(report), n)
                  = Occurrences([i \in 1..Len(analyses) |-> ResultName(analyses[i])], n)

C23_Witness ==
    /\ rpc = "done"
    /\ Len(analyses) = 2
    /\ analyses[1].ok /\ ~analyses[2].ok
    /\ ResultName(analyses[1]) = ResultName(analyses[2])
    /\ report.total = 2
    /\ Len(report.resolve_errors) = 1

-----------------------------------------------------------------------------
(* Claims about the resolver chain                                           *)

\* C4: the steps run in declaration order, step i only after every step before it
\* returned Continue and with exactly the specifier and state of that Continue (the
\* first with the specifier of the call and the unit state); the first Ok or Error
\* ends the chain: Error is returned unchanged, Ok after canonicalization; and when
\* the last step returns Continue, resolve returns FailedToResolve(s, from) with s the
\* specifier of that last Continue and from the path given to resolve.
C4_ChainOrder ==
    /\ \A j \in 1..Len(chLog) :
        /\ chLog[j].step = j
        /\ chLog[j].from = chIn.from
        /\ j = 1 => /\ chLog[j].import_specifier = chIn.import_specifier
                    /\ chLog[j].state = "()"
        /\ j > 1 => /\ chLog[j - 1].result.t = "Continue"
                    /\ chLog[j].import_specifier = chLog[j - 1].result.import_specifier
                    /\ chLog[j].state = chLog[j - 1].result.state
    /\ chOut.t = "returned" =>
        /\ Len(chLog) >= 1
        /\ Len(chLog) < ChainLen => chLog[Len(chLog)].result.t \in {"Ok", "Error"}
        /\ LET last == chLog[Len(chLog)].result
           IN  /\ last.t = "Error" => chOut.result = [ok |-> FALSE, error |-> last.error]
               /\ last.t = "Ok" =>
                    IF canonicalize(last.path).ok
                    THEN chOut.result = [ok |-> TRUE, path |-> canonicalize(last.path).path]
                    ELSE ~chOut.result.ok
               /\ last.t = "Continue" =>
                    chOut.result = [ok |-> FALSE, error |-> "FailedToResolve",
                                    import_specifier |-> last.import_specifier,
                                    from |-> chIn.from]

\* Every step ran, a step rewrote the specifier, and resolve failed with the
\* rewritten specifier.
C4_Witness ==
    /\ chOut.t = "returned"
    /\ Len(chLog) = ChainLen
    /\ ~chOut.result.ok
    /\ chOut.result.error = "FailedToResolve"
    /\ chOut.result.import_specifier # chIn.import_specifier
    /\ \E j \in 2..Len(chLog) : chLog[j].import_specifier # chIn.import_specifier

-----------------------------------------------------------------------------
(* Claims about the dependency walker                                        *)

WalkReturnedOk == wOut.t = "returned" /\ wOut.result.ok

\* The npm-name prefix of a specifier, on its '/'-separated parts: the first part,
\* and the second with it when the first is a scope.
NpmNamePrefix(s) ==
    LET parts == Split(s, "/")
    IN  IF s[1] = "@" /\ Len(parts) >= 2
        THEN parts[1] \o <<"/">> \o parts[2]
        ELSE parts[1]

\* The specifier of the edge followed by the walk call at position j of the stack.
EdgeSpecifier(j) ==
    LET caller == wStack[j - 1]
        s == wWorld.imports[caller.entrypoint][caller.i - 1]
    IN  IF s[Len(s)] = "/" THEN SubSeq(s, 1, Len(s) - 1) ELSE s

\* The label of every active walk call: the top-level name at an entrypoint, the
\* npm-name prefix after a bare edge, the caller's label after a relative edge.
LabelRule ==
    \A j \in 1..Len(wStack) :
        IF j = 1 THEN wStack[j].current_module = WalkPackage
        ELSE IF EdgeSpecifier(j)[1] = "."
             THEN wStack[j].current_module = wStack[j - 1].current_module
             ELSE wStack[j].current_module = NpmNamePrefix(EdgeSpecifier(j))

\* walk is about to visit, for the first time, a file with CommonJS syntax.
FirstCjsVisit ==
    /\ wStack # <<>>
    /\ Top.i = 0
    /\ Top.entrypoint \notin visited
    /\ Extension(Top.entrypoint) = Some(<<"j", "s">>)
    /\ wWorld.syntax[Top.entrypoint] = "cjs"

CjsStep ==
    FirstCjsVisit =>
        LET label == Top.current_module
            a == analysis.v
            b == analysis'.v
        IN  /\ b.package_name = a.package_name
            /\ b.esm_missing_js_file_extensions = a.esm_missing_js_file_extensions
            /\ IF label = a.package_name
               THEN /\ ~b.is_entry_esm
                    /\ b.transitive_commonjs_dependencies =
                            a.transitive_commonjs_dependencies
               ELSE /\ b.is_entry_esm = a.is_entry_esm
                    /\ b.transitive_commonjs_dependencies =
                            a.transitive_commonjs_dependencies \cup {label}

\* The labels under which files with CommonJS syntax were visited.
CjsLabels ==
    {wLog[k].current_module :
        k \in {n \in 1..Len(wLog) :
                wLog[n].parsed /\ wWorld.syntax[wLog[n].file] = "cjs"}}

CjsFreeTopLevel ==
    (WalkReturnedOk /\ WalkPackage \notin CjsLabels) =>
        /\ wOut.result.analysis.is_entry_esm
        /\ wOut.result.analysis.transitive_commonjs_dependencies = CjsLabels

\* C2: a first visit of a file with CommonJS syntax sets is_entry_esm to false and
\* leaves both sets alone when the current-package label is the top-level name, and
\* otherwise inserts the label into transitive_commonjs_dependencies and leaves
\* is_entry_esm alone; the label is the top-level name at an entrypoint, the npm-name
\* prefix of the specifier after a bare edge, the caller's label after a relative
\* edge; so a top-level package none of whose files has CommonJS syntax ends with
\* is_entry_esm = true and exactly the packages whose CommonJS files were reached.
C2_CjsAttribution == []LabelRule /\ []CjsFreeTopLevel /\ [][CjsStep]_vars

\* A package free of CommonJS syntax that reached CommonJS files of two packages,
\* one of them scoped and reached from the other.
C2_Witness ==
    /\ WalkReturnedOk
    /\ wOut.result.analysis.is_entry_esm
    /\ wOut.result.analysis.transitive_commonjs_dependencies =
            {<<"d">>, <<"@", "s", "/", "q">>}
    /\ FileAL \in visited

\* No file is parsed twice, and a file whose imports are being followed is in the
\* visited set.
ParsedAtMostOnce ==
    /\ \A j, k \in 1..Len(wLog) : wLog[j].file = wLog[k].file => j = k
    /\ \A j \in 1..Len(wStack) : wStack[j].i >= 1 => wStack[j].entrypoint \in visited

\* C3: analyze_package returns on every import graph, cycles included; a file is
\* in the visited set before its imports are followed, the set is shared by all
\* entrypoints, and no file is parsed twice in one call.
C3_TerminatesParsingOnce == []ParsedAtMostOnce /\ <>(wOut.t = "returned")

\* analyze_package returned after walking two entrypoints of a package whose entry
\* imports itself and a dependency that imports the package back.
C3_Witness ==
    /\ WalkReturnedOk
    /\ wWorld.package.list = <<FileAL, FileAI>>
    /\ wWorld.imports[FileAL] = <<<<".", "/", "i", ".", "j", "s">>>>
    /\ wWorld.imports[FileAI] = <<<<".", "/", "i", ".", "j", "s">>, <<"d">>>>
    /\ wWorld.imports[FileDI] = <<<<"a">>>>
    /\ {FileAI, FileAL, FileDI} \subseteq visited

\* The orders in which get_entrypoints may yield the entrypoints of the package:
\* the values of a hash map, in the iteration order of the map.
EntrypointOrders(list) ==
    {l \in [1..Len(list) -> {list[k] : k \in 1..Len(list)}] :
        \A e \in {list[k] : k \in 1..Len(list)} : \E k \in 1..Len(l) : l[k] = e}

\* C11: the Analysis analyze_package returns does not depend on the order in which
\* the entrypoints are walked: whatever order get_entrypoints yields them in, the
\* call returns what the walk in progress has returned.
C11_EntrypointOrderIrrelevant ==
    WalkReturnedOk =>
        \A l \in EntrypointOrders(wWorld.package.list) :
            analyze_package(wWorld, l) = wOut.result

\* The walk returns what analyze_package, as a function, gives for the order walked.
WalkFunctionAgrees ==
    wOut.t = "returned" =>
        wOut.result = analyze_package(wWorld, wWorld.package.list)

\* walk is about to parse a file that does not parse.
FailingVisit ==
    /\ wStack # <<>>
    /\ Top.i = 0
    /\ Top.entrypoint \notin visited
    /\ Extension(Top.entrypoint) \notin {Some(<<"j", "s", "o", "n">>), Some(<<"n", "o", "d", "e">>)}
    /\ wWorld.syntax[Top.entrypoint] = "invalid"

\* The specifier walk is about to process, as written in the file.
NextSpecifier == wWorld.imports[Top.entrypoint][Top.i]

\* walk is about to resolve an import edge whose failure is not skipped.
FailingEdge ==
    /\ wStack # <<>>
    /\ Top.i >= 1 /\ Top.i <= Len(wWorld.imports[Top.entrypoint])
    /\ ~SkippedSpecifier(Stripped(NextSpecifier).specifier)
    /\ ~WalkResolve(Stripped(NextSpecifier).specifier, Top.entrypoint).ok
    /\ ~(/\ Stripped(NextSpecifier).allow_node_builtins
          /\ Stripped(NextSpecifier).specifier \in NODE_BUILTINS)
    /\ WalkResolve(Stripped(NextSpecifier).specifier, Top.entrypoint).error
            # "PeerDependencyNotInstalled"

\* The step at a failure returns the error from analyze_package with no walk call
\* left, and nothing is visited or recorded once analyze_package has returned.
TerminalStep ==
    /\ FailingVisit =>
            /\ wOut' = [t |-> "returned",
                        result |-> AnalysisParseError(WalkPackage, Top.entrypoint)]
            /\ wStack' = <<>>
    /\ FailingEdge =>
            /\ wOut' = [t |-> "returned",
                        result |-> AnalysisResolveError(WalkPackage, NextSpecifier,
                            Top.entrypoint,
                            WalkResolve(Stripped(NextSpecifier).specifier,
                                        Top.entrypoint).error)]
            /\ wStack' = <<>>
    /\ wOut.t = "returned" => UNCHANGED <<wOut, visited, wLog, analysis, wStack>>

\* The entries of the report that carry the name of the package.
EntriesOf(r, name) ==
    [b \in Buckets \cup {"resolve_errors", "parse_errors"} |->
        Count(IF b = "resolve_errors" THEN Names(r.resolve_errors)
              ELSE IF b = "parse_errors" THEN Names(r.parse_errors)
              ELSE BucketNames(r, b), name)]

\* The report with the entries of one package taken out, and not counted.
Without(r, name) ==
    LET Rest(list) == SelectSeq(list, LAMBDA e : e.package_name # name)
        RestNames(list) == SelectSeq(list, LAMBDA e : e # name)
    IN  [total |-> r.total - 1,
         esm |-> RestNames(r.esm), cjs |-> RestNames(r.cjs),
         with_commonjs_dependencies |-> Rest(r.with_commonjs_dependencies),
         with_missing_js_file_extensions |-> Rest(r.with_missing_js_file_extensions),
         resolve_errors |-> Rest(r.resolve_errors),
         parse_errors |-> Rest(r.parse_errors)]

\* The results of the other top-level packages of a run.
OtherResults == {o \in AnalysisResults :
                    (IF o.ok THEN o.analysis.package_name ELSE o.package_name)
                        # WalkPackage}

\* An error returned by analyze_package is one entry of resolve_errors or
\* parse_errors and of no other list, and the entries of another package are those
\* of the report made without the failing package.
ErrorReported ==
    (wOut.t = "returned" /\ ~wOut.result.ok) =>
        /\ EntriesOf(into_report(<<wOut.result>>), WalkPackage) =
                [b \in Buckets \cup {"resolve_errors", "parse_errors"} |->
                    IF b = (IF wOut.result.kind = "ResolveError"
                            THEN "resolve_errors" ELSE "parse_errors")
                    THEN 1 ELSE 0]
        /\ \A o \in OtherResults :
            /\ Without(into_report(<<o, wOut.result>>), WalkPackage) = into_report(<<o>>)
            /\ Without(into_report(<<wOut.result, o>>), WalkPackage) = into_report(<<o>>)

\* Every file parsed before the last one parsed did parse.
FirstFailureReturned ==
    \A k \in 1..(Len(wLog) - 1) :
        wLog[k].parsed => wWorld.syntax[wLog[k].file] # "invalid"

AtEdge ==
    /\ wOut.t = "pending"
    /\ wStack # <<>>
    /\ Top.i >= 1 /\ Top.i <= Len(wWorld.imports[Top.entrypoint])
    /\ ~SkippedSpecifier(Stripped(NextSpecifier).specifier)

\* The specifier the optional-peer gate is given for the edge: the one of the
\* import, or the name of the package.json in the directory it points to.
GateSpecifier ==
    LET specifier == Stripped(NextSpecifier).specifier
        path == Join(Parent(Top.entrypoint), specifier)
    IN  IF StartsWith(specifier, <<".">>) /\ path \in DOMAIN WalkNamedDirectories
        THEN WalkNamedDirectories[path] ELSE specifier

\* The names the package.json of a package lists in peerDependencies, and those
\* its peerDependenciesMeta marks optional.
PeerNames(package) ==
    IF WalkManifests[package].peer_dependencies = None THEN {}
    ELSE WalkManifests[package].peer_dependencies.v
OptionalNames(package) ==
    IF WalkManifests[package].peer_dependencies_meta = None THEN {}
    ELSE {n \in DOMAIN WalkManifests[package].peer_dependencies_meta.v :
            WalkManifests[package].peer_dependencies_meta.v[n].optional}

\* The resolver answers PeerDependencyNotInstalled for the edge.
PeerNotInstalled ==
    /\ ~WalkResolve(Stripped(NextSpecifier).specifier, Top.entrypoint).ok
    /\ WalkResolve(Stripped(NextSpecifier).specifier, Top.entrypoint).error
            = "PeerDependencyNotInstalled"

\* PeerDependencyNotInstalled is the answer for a specifier that reaches the gate
\* exactly when its npm name is a peer dependency of the source package, marked
\* optional, and absent from node_modules.
GateExact ==
    (AtEdge /\ ~WalkResolve(GateSpecifier, Top.entrypoint).ok
        /\ GateSpecifier \notin DOMAIN WalkNamedDirectories) =>
        (PeerNotInstalled <=>
            LET name == get_npm_package_name(GateSpecifier)
                source == WalkSourcePackage(Top.entrypoint)
            IN  /\ name \in PeerNames(source)
                /\ name \in OptionalNames(source)
                /\ name \notin WalkInstalled)

\* The edge is skipped: the same walk call goes on with the next import of the
\* file, nothing is visited and nothing is returned.
EdgeSkipped ==
    /\ wStack' = [wStack EXCEPT ![Len(wStack)].i = @ + 1]
    /\ visited' = visited
    /\ wOut' = wOut

SkipLeavesAnalysis ==
    (AtEdge /\ PeerNotInstalled) => (EdgeSkipped /\ analysis' = analysis)

\* What the edge may add to the Analysis is the record made from the text of the
\* specifier before the resolver is called.
SkipRecordsExtensionOnly ==
    (AtEdge /\ PeerNotInstalled) =>
        /\ EdgeSkipped
        /\ analysis'.v.package_name = analysis.v.package_name
        /\ analysis'.v.is_entry_esm = analysis.v.is_entry_esm
        /\ analysis'.v.transitive_commonjs_dependencies
                = analysis.v.transitive_commonjs_dependencies
        /\ analysis'.v.esm_missing_js_file_extensions =
                IF /\ StartsWith(NextSpecifier, <<".">>)
                   /\ ~EndsWith(Stripped(NextSpecifier).specifier, <<".", "j", "s">>)
                   /\ ~EndsWith(Stripped(NextSpecifier).specifier, <<".", "m", "j", "s">>)
                THEN analysis.v.esm_missing_js_file_extensions \cup {Top.current_module}
                ELSE analysis.v.esm_missing_js_file_extensions

\* No error returned by analyze_package, and no entry of resolve_errors, has
\* PeerDependencyNotInstalled as its source.
PeerNeverReported ==
    (wOut.t = "returned" /\ ~wOut.result.ok /\ wOut.result.kind = "ResolveError") =>
        /\ wOut.result.detail.source # "PeerDependencyNotInstalled"
        /\ \A k \in 1..Len(into_report(<<wOut.result>>).resolve_errors) :
              into_report(<<wOut.result>>).resolve_errors[k].detail.source
                    # "PeerDependencyNotInstalled"

\* C15: PeerDependencyNotInstalled is recovered by the walker and never reported:
\* the gate answers it exactly for an optional peer dependency of the source
\* package that is absent from node_modules, the edge is skipped, the rest of the
\* imports of the file are processed, no error carries it, and the Analysis is not
\* changed by the edge.
C15_PeerSkipLeavesAnalysis ==
    [][SkipLeavesAnalysis]_vars /\ []GateExact /\ []PeerNeverReported

\* C15, amended: as above, but the Analysis may gain the missing-extension record
\* of a relative specifier, which walk makes before it calls the resolver.
C15_PeerSkipRecordsExtensionOnly ==
    [][SkipRecordsExtensionOnly]_vars /\ []GateExact /\ []PeerNeverReported

\* analyze_package returned the Analysis after skipping `./s`, a directory whose
\* package.json names the absent optional peer p, and walking the next import.
C15_Witness ==
    /\ wOut.t = "returned" /\ wOut.result.ok
    /\ wWorld.imports[FileAI] = <<<<".", "/", "s">>, <<"d">>>>
    /\ FileDI \in visited
    /\ WalkPackage \in wOut.result.analysis.esm_missing_js_file_extensions

\* walk is at an import of the file it is in.
AtImport ==
    /\ wOut.t = "pending"
    /\ wStack # <<>>
    /\ Top.i >= 1 /\ Top.i <= Len(wWorld.imports[Top.entrypoint])

\* A specifier, one trailing `/` stripped, is relative and ends with neither .js
\* nor .mjs.
LacksJsExtension(original_specifier) ==
    LET specifier == IF EndsWith(original_specifier, <<"/">>)
                     THEN UpTo(original_specifier, Len(original_specifier) - 1)
                     ELSE original_specifier
    IN  /\ Head(specifier) = "."
        /\ ~EndsWith(specifier, <<".", "j", "s">>)
        /\ ~EndsWith(specifier, <<".", "m", "j", "s">>)

\* The step at an import inserts the current package for such a specifier and
\* nothing otherwise, whatever becomes of the edge.
ExtensionStep ==
    AtImport =>
        analysis'.v.esm_missing_js_file_extensions =
            IF LacksJsExtension(NextSpecifier)
            THEN analysis.v.esm_missing_js_file_extensions \cup {Top.current_module}
            ELSE analysis.v.esm_missing_js_file_extensions

\* The set of a returned Analysis holds the labels under which the files with such
\* a specifier were parsed, and no other name.
ExtensionsOfParsedFiles ==
    WalkReturnedOk =>
        wOut.result.analysis.esm_missing_js_file_extensions =
            {wLog[k].current_module :
                k \in {j \in 1..Len(wLog) :
                        /\ wLog[j].parsed
                        /\ \E n \in 1..Len(wWorld.imports[wLog[j].file]) :
                              LacksJsExtension(wWorld.imports[wLog[j].file][n])}}

\* C21: for every specifier of a visited file, one trailing `/` stripped, that
\* starts with `.` and ends with neither .js nor .mjs, the current package of the
\* walker, top-level or not, is inserted into esm_missing_js_file_extensions; the
\* test comes before the `node:` / `.json` skip, and a specifier that does not
\* start with `.` adds nothing.
C21_MissingExtensionRecorded == [][ExtensionStep]_vars /\ []ExtensionsOfParsedFiles

\* The Analysis returned holds the top-level package for its `./c.json`, which is
\* then skipped, and the dependency d for the `./u` of a file of d.
C21_Witness ==
    /\ WalkReturnedOk
    /\ wWorld.imports[FileAI] = <<<<"p">>, <<".", "/", "c", ".", "j", "s", "o", "n">>, <<"d">>>>
    /\ wWorld.imports[FileDI] = <<<<".", "/", "u">>, <<"a", "/", "l", ".", "j", "s">>>>
    /\ wOut.result.analysis.esm_missing_js_file_extensions = {<<"a">>, <<"d">>}

\* The specifier walk is about to process, one trailing `/` stripped, starts with
\* `node:`.
AtNodeSpecifier ==
    /\ AtImport
    /\ StartsWith(Stripped(NextSpecifier).specifier, <<"n", "o", "d", "e", ":">>)

\* The step at such a specifier moves on to the next import of the same file: no
\* call is entered, no file visited, nothing returned and nothing recorded.
NodeSpecifierStep ==
    AtNodeSpecifier =>
        /\ wStack' = [wStack EXCEPT ![Len(wStack)].i = @ + 1]
        /\ UNCHANGED <<visited, wLog, wOut, analysis>>

\* No resolve error returned is about such a specifier.
NoErrorForNodeSpecifier ==
    (wOut.t = "returned" /\ ~wOut.result.ok /\ wOut.result.kind = "ResolveError") =>
        ~StartsWith(Stripped(wOut.result.detail.import_specifier).specifier, <<"n", "o", "d", "e", ":">>)

\* C24: a specifier that, one trailing `/` stripped, starts with `node:` is never
\* handed to the resolver: the edge is skipped, no file is visited for it, no error
\* is produced for it, and the walk goes on with the next import of the same file.
C24_NodeSpecifierSkipped == [][NodeSpecifierStep]_vars /\ []NoErrorForNodeSpecifier

\* Both `node:fs` and `node:fs/` were passed over and the walk went on to d.
C24_Witness ==
    /\ wWorld.imports[FileAI] =
            <<<<"n", "o", "d", "e", ":", "f", "s">>, <<"n", "o", "d", "e", ":", "f", "s", "/">>, <<"f", "s">>, <<"d", "/">>, <<".", "/", "l", ".", "c", "j", "s">>>>
    /\ FileAI \in visited
    /\ FileDI \in visited
    /\ wOut.t = "returned"

\* get_entrypoints gave analyze_package an empty list.
NoEntrypoints == wWorld.package.ok /\ wWorld.package.list = <<>>

\* What get_entrypoints returns, with the default condition names, for the
\* package.json files whose exports name no file.
NoEntrypointResults ==
    {get_entrypoints(p.package_json, get_default_condition_names,
                     [ok |-> FALSE, error |-> "NotCalled"]) :
        p \in UNION {parse_package_json_file([foo |-> m], DirFoo, Some(<<"f", "o", "o">>)) :
                        m \in NoEntrypointManifests}}

\* C26: when get_entrypoints returns an empty list, as it does for exports that
\* are the empty object, wildcard patterns only, or conditionals that offer only
\* conditions outside import, module, default, analyze_package visits no file and
\* returns Ok with is_entry_esm true and both sets empty, and into_report lists
\* the package under esm.
C26_NoEntrypointsReportedAsEsm ==
    (NoEntrypoints /\ wOut.t = "returned") =>
        /\ NoEntrypointResults = {[t |-> "Ok", list |-> <<>>]}
        /\ visited = {} /\ wLog = <<>>
        /\ wOut.result = [ok |-> TRUE, analysis |-> NewAnalysis(WalkPackage)]
        /\ wOut.result.analysis.is_entry_esm
        /\ wOut.result.analysis.transitive_commonjs_dependencies = {}
        /\ wOut.result.analysis.esm_missing_js_file_extensions = {}
        /\ into_report(<<wOut.result>>) =
                [EmptyReport EXCEPT !.total = 1, !.esm = <<WalkPackage>>]

C26_Witness ==
    /\ NoEntrypoints
    /\ wOut.t = "returned" /\ wOut.result.ok
    /\ wWorld.syntax[FileAI] = "cjs"
    /\ into_report(<<wOut.result>>).esm = <<WalkPackage>>

\* The Analysis never holds the name of its own package as a CommonJS dependency.
NotOwnCjsDependency ==
    analysis # None =>
        analysis.v.package_name \notin analysis.v.transitive_commonjs_dependencies

\* No step sets is_entry_esm back to true.
EsmFlagStaysFalse ==
    (analysis # None /\ ~analysis.v.is_entry_esm) =>
        (analysis' # None /\ ~analysis'.v.is_entry_esm)

\* A package listed under with_commonjs_dependencies is not among the
\* dependencies listed for it.
NotListedUnderItself ==
    WalkReturnedOk =>
        LET listed == into_report(<<wOut.result>>).with_commonjs_dependencies
        IN  \A i \in 1..Len(listed) :
                listed[i].package_name
                    \notin listed[i].transitive_commonjs_dependencies

\* C30: in every state of analyze_package the name of the top-level package is not
\* in transitive_commonjs_dependencies, and is_entry_esm, once false, is never set
\* back to true; a package reported under with_commonjs_dependencies never lists
\* itself, even when a dependency imports the top-level package back.
C30_TopLevelNeverOwnDependency ==
    /\ []NotOwnCjsDependency
    /\ [][EsmFlagStaysFalse]_vars
    /\ []NotListedUnderItself

\* The CommonJS file of d imports a file of a, the package analyzed; a is listed
\* with d as its only CommonJS dependency.
C30_Witness ==
    /\ WalkReturnedOk
    /\ wWorld.syntax[FileDI] = "cjs"
    /\ wWorld.imports[FileDI] = <<<<".", "/", "u">>, <<"a", "/", "l", ".", "j", "s">>>>
    /\ FileAL \in visited
    /\ \E k \in 1..Len(wLog) : wLog[k].file = FileAL /\ wLog[k].current_module = WalkPackage
    /\ into_report(<<wOut.result>>).with_commonjs_dependencies =
            <<[package_name |-> WalkPackage,
               transitive_commonjs_dependencies |-> {<<"d">>}]>>

-----------------------------------------------------------------------------
(* Claims about the entrypoints of a package                                 *)

\* C14: analyze_package never panics: whatever the package.json of the package
\* names, the call reaches its entrypoint loop with a list of entrypoints or returns
\* an error.
C14_NoPanic == epOut.t \in {"pending", "Ok", "Err"}

\* The normalized exports-like fields of a PackageJson.
ParsedFields(package_json) ==
    {package_json.parsed_exports, package_json.parsed_main,
     package_json.parsed_module, package_json.parsed_browser,
     package_json.parsed_types}

\* C19: every key of a normalized Subpaths map is the effective package name P or
\* has the form P/<suffix>, whatever keys the JSON object has next to its dotted
\* ones.
C19_SubpathKeysUnderName ==
    (epOut.t \in {"Ok", "Err", "Panic"} /\ epOut.at = "get_entrypoints") =>
        \A field \in ParsedFields(epOut.package_json) :
            (field # None /\ field.v.t = "Map") =>
                \A i \in 1..Len(field.v.m) :
                    \/ field.v.m[i].k = epOut.package_json.name.v
                    \/ StartsWith(field.v.m[i].k,
                                  epOut.package_json.name.v \o <<"/">>)

\* The entrypoints a value of the exports field stands for: the file of a string
\* without `*`, and for a conditional the file of the leaf the resolver's condition
\* selection picks, unless it picks none or one with `*`.
ExpectedEntry(package_root, condition_names, v) ==
    IF v.t = "Filename" THEN
        IF ContainsChar(v.s, "*") THEN <<>> ELSE <<Join(package_root, v.s)>>
    ELSE LET leaf == resolve_condition_name(condition_names, v.m, package_root, None)
         IN  IF leaf = None \/ ContainsChar(leaf.v, "*") THEN <<>> ELSE <<leaf.v>>

RECURSIVE ExpectedFrom(_, _, _, _)
ExpectedFrom(package_root, condition_names, map, i) ==
    IF i > Len(map) THEN <<>>
    ELSE ExpectedEntry(package_root, condition_names, map[i].v)
            \o ExpectedFrom(package_root, condition_names, map, i + 1)

ExpectedEntrypoints(package_root, condition_names, exports) ==
    IF exports.t = "Filename" THEN <<Join(package_root, exports.s)>>
    ELSE IF exports.t = "Map" THEN ExpectedFrom(package_root, condition_names, exports.m, 1)
    ELSE ExpectedEntry(package_root, condition_names, [t |-> "Conditional", m |-> exports.m])

\* C20: with parsed_exports set, get_entrypoints returns, without the resolver, the
\* files of the string entries without `*` and, for a conditional, the file of the
\* leaf the resolver's condition selection picks under the same list, nothing when
\* that leaf has `*` or no condition wins; with parsed_exports unset it returns the
\* path the package name resolves to from the package root, or FailedToResolve when
\* the package has no name.
C20_EntrypointsAsResolverSelects ==
    (epOut.t \in {"Ok", "Err"} /\ epOut.at = "get_entrypoints") =>
        IF epOut.package_json.parsed_exports # None THEN
            /\ epOut.t = "Ok"
            /\ epOut.list = ExpectedEntrypoints(epOut.package_json.package_root,
                                epIn.condition_names,
                                epOut.package_json.parsed_exports.v)
        ELSE IF epOut.package_json.name # None THEN
            IF epOut.own_entry.ok
            THEN epOut.t = "Ok" /\ epOut.list = <<epOut.own_entry.path>>
            ELSE epOut.t = "Err" /\ epOut.error = epOut.own_entry
        ELSE epOut.t = "Err" /\ epOut.error.error = "FailedToResolve"

-----------------------------------------------------------------------------
(* Claims about the package.json cache and the resolver                      *)

\* A map, and a field, without the iteration order of their entries: what the
\* equality of HashMap compares.
RECURSIVE Entries(_)
Entries(m) ==
    {[k |-> m[i].k,
      v |-> IF m[i].v.t = "Filename" THEN m[i].v
            ELSE [t |-> "Conditional", m |-> Entries(m[i].v.m)]] : i \in 1..Len(m)}

Unordered(field) ==
    IF field = None \/ field.v.t = "Filename" THEN field
    ELSE Some([t |-> field.v.t, m |-> Entries(field.v.m)])

\* Two results of get_or_parse_package_json are equal: the same error, or
\* PackageJson values with equal fields.
EqualResults(a, b) ==
    IF ~a.ok \/ ~b.ok THEN a = b
    ELSE /\ a.package_json.name = b.package_json.name
         /\ a.package_json.package_root = b.package_json.package_root
         /\ a.package_json.raw = b.package_json.raw
         /\ Unordered(a.package_json.parsed_exports)
                = Unordered(b.package_json.parsed_exports)
         /\ Unordered(a.package_json.parsed_main) = Unordered(b.package_json.parsed_main)
         /\ Unordered(a.package_json.parsed_module)
                = Unordered(b.package_json.parsed_module)
         /\ Unordered(a.package_json.parsed_browser)
                = Unordered(b.package_json.parsed_browser)
         /\ Unordered(a.package_json.parsed_types)
                = Unordered(b.package_json.parsed_types)

\* C7: the calls of get_or_parse_package_json for one directory, whatever name
\* they pass and however they interleave, return equal PackageJson values: those
\* that missed together, and every later one.
C7_EqualValuesPerDirectory ==
    \A a, b \in returned :
        a.module_path = b.module_path => EqualResults(a.result, b.result)

\* The names a caller may pass with a directory.
NameHints == {None} \cup {c.package_name : c \in GetOrParseCalls}

\* The completely constructed PackageJson values of a directory: the file read,
\* the name fixed and the five fields normalized, for some name passed.
CompleteValues(world, module_path) ==
    {p.package_json :
        p \in {q \in UNION {parse_package_json_file(world, module_path, h) :
                                h \in NameHints} : q.ok}}

\* C9: every entry of every shard, and every handle get_or_parse_package_json has
\* returned, is a completely constructed PackageJson of its directory, and the
\* entry of a directory sits in the shard of that directory.
C9_EntriesCompletelyConstructed ==
    /\ \A i \in DOMAIN parsed : \A d \in DOMAIN parsed[i] :
        /\ i = shard_index(cWorld.seed, d)
        /\ parsed[i][d] \in CompleteValues(cWorld, d)
    /\ \A r \in returned :
        r.result.ok => r.result.package_json \in CompleteValues(cWorld, r.module_path)

\* A thread got, by a hit, the entry with normalized exports that another call
\* had inserted, and a shard holds the entry of that directory.
C9_Witness ==
    /\ \E r \in returned :
        /\ ~r.miss
        /\ r.module_path = DirFoo
        /\ r.result.package_json.parsed_exports # None
    /\ \E i \in DOMAIN parsed : DirFoo \in DOMAIN parsed[i]

\* The directories that have an entry in some shard.
CachedDirectories(shards) == UNION {DOMAIN shards[i] : i \in DOMAIN shards}

\* No step takes a directory out of its shard.
CacheKeepsKeys == \A i \in DOMAIN parsed : DOMAIN parsed[i] \subseteq DOMAIN parsed'[i]

\* The calls that return an error in this step.
FailingReturns == {r \in returned' \ returned : ~r.result.ok}

\* A call that returns an error leaves every shard as it was.
FailureLeavesShards == FailingReturns # {} => parsed' = parsed

\* A call that failed had missed, returns one of the two errors of
\* parse_package_json_file, and its directory has no entry in any shard.
FailuresNotCached ==
    \A r \in returned :
        ~r.result.ok =>
            /\ r.miss
            /\ r.result.error \in {"IoError", "ParsePackageJsonFailed"}
            /\ r.module_path \notin CachedDirectories(parsed)

\* C25: the cache only grows, no step removing a key, and a call of
\* get_or_parse_package_json whose read or parse fails returns IoError or
\* ParsePackageJsonFailed and leaves every shard as it was: the failure is not
\* cached, and a later call for that directory reads the file again.
C25_CacheGrowsFailuresNotCached ==
    /\ [][CacheKeepsKeys /\ FailureLeavesShards]_vars
    /\ []FailuresNotCached

\* Both threads have asked for foo, whose package.json is no JSON: both missed and
\* failed, while the cache holds nothing.
C25_Witness ==
    /\ \A t \in Threads :
          \E r \in returned :
              /\ r.thread = t /\ r.module_path = DirFoo /\ r.miss
              /\ ~r.result.ok /\ r.result.error = "ParsePackageJsonFailed"
    /\ CachedDirectories(parsed) = {}

\* What a call of resolve may return when every get_or_parse_package_json reads
\* and normalizes the file again, with the name of that call.
RECURSIVE UncachedOutcomes(_, _, _)
UncachedOutcomes(world, from, r) ==
    IF r.t = "Returned" THEN {r.result}
    ELSE UNION {UncachedOutcomes(world, from,
                    RunChain(r.step, r.import_specifier, from, r.state, lk)) :
                lk \in parse_package_json_file(world, r.module_path, r.package_name)}

\* C8: every call of resolve made through the shared cache returns what the same
\* call returns with the cache disabled.
C8_CacheIsObservationalNoOp ==
    \A c \in resolved :
        c.result \in UncachedOutcomes(cWorld, c.from,
                        RunChain(1, c.import_specifier, c.from, "()", NoLookup))

\* C10: two calls of resolve with the same specifier and the same from path return
\* equal outcomes.
C10_ResolutionIdempotent ==
    \A a, b \in resolved :
        (a.import_specifier = b.import_specifier /\ a.from = b.from)
            => a.result = b.result

-----------------------------------------------------------------------------
(* Claims about the presets                                                   *)

\* The ExportsResolver steps that read another field than exports.
FieldSteps == {"Module", "Browser", "Main", "Types"}

\* The step about to be called, by the name of its resolver or of its field.
StepAbout == Preset(pIn.preset).steps[pRun.k]

\* A step for Module, Browser, Main or Types given a state with parsed_exports
\* hands the specifier and the state it received to the next step.
NoOpWhenExports ==
    (/\ pOut.t = "pending"
     /\ StepAbout \in FieldSteps
     /\ pRun.state.parsed_exports # None) =>
        /\ pRun' = [k |-> pRun.k + 1, import_specifier |-> pRun.import_specifier,
                    state |-> pRun.state]
        /\ pOut' = pOut

\* No step for Module, Browser, Main or Types has returned a path for a package
\* whose parsed_exports is set.
NeverThroughFields ==
    \A i \in 1..Len(pLog) :
        (pLog[i].step \in FieldSteps /\ pLog[i].state.parsed_exports # None) =>
            pLog[i].result = StepContinue(pLog[i].import_specifier, pLog[i].state)

\* C16: an ExportsResolver step for the Module, Browser, Main or Types field is a
\* no-op when parsed_exports is set: it returns Continue with the specifier and the
\* state it received, whatever the field holds, so no specifier of a package with
\* a normalized exports field is resolved through module, browser or main.
C16_FieldStepsAreNoOps == [][NoOpWhenExports]_vars /\ []NeverThroughFields

\* The default preset has run to its end on `foo`, whose exports has no entry for
\* the package itself while module, browser and main all name a file on disk.
C16_Witness ==
    /\ pIn.preset = "default"
    /\ pIn.foo = ManifestFooExportsAndFields
    /\ pIn.call.import_specifier = <<"f", "o", "o">>
    /\ pOut.t = "returned" /\ ~pOut.result.ok
    /\ Len(pLog) = Len(DefaultPreset)
    /\ pLog[8].step = "Main" /\ pLog[8].state.parsed_main # None

\* The steps the strict-ESM resolver is described as leaving out.
FallbackSteps ==
    {"HandleOptionalPeerDependenciesResolver", "PseudoNamespaceResolver",
     "files_resolver", "index_resolver"}

\* C17: the strict-ESM chain has no implicit-file helper, no optional-peer gate, no
\* pseudo-namespace step, no files fallback and no index fallback, and selects
\* conditions from [import, default] only; a specifier equal to the name of a
\* package without exports, module and main is never resolved through an
\* index.js listed in the files field.
C17_StrictEsmHasNoFallbacks ==
    pIn.preset = "strict_esm" =>
        /\ Preset(pIn.preset).implicit_file_resolver = None
        /\ Preset(pIn.preset).condition_names = <<IMPORT, DEFAULT>>
        /\ \A i \in 1..Len(pLog) :
            /\ pLog[i].step \notin FallbackSteps
            /\ (/\ pLog[i].step = "files_resolver"
                /\ pLog[i].state.parsed_exports = None
                /\ pLog[i].state.parsed_module = None
                /\ pLog[i].state.parsed_main = None) => pLog[i].result.t # "Ok"

\* The three last steps of the default preset.
LastSteps == {"files_resolver", "index_resolver", "FileResolver"}

\* The result of a step, but for the state a Continue hands on.
Verdict(r) == IF r.t = "Continue" THEN [r EXCEPT !.state = "()"] ELSE r

\* What one of the three last steps returns for a package.json.
LastStep(step, import_specifier, from, state) ==
    IF step = "files_resolver" THEN files_resolver(import_specifier, from, state)
    ELSE IF step = "index_resolver" THEN index_resolver(import_specifier, from, state)
    ELSE FileResolver(Preset("default").implicit_file_resolver, import_specifier,
                      from, state)

\* Each of the three last steps was called for packages with and without
\* parsed_exports alike, and returned what it returns for the same package.json
\* without its exports.
LastStepsIgnoreExports ==
    \A i \in 1..Len(pLog) :
        pLog[i].step \in LastSteps =>
            Verdict(pLog[i].result) =
                Verdict(LastStep(pLog[i].step, pLog[i].import_specifier, pIn.call.from,
                                 [pLog[i].state EXCEPT !.parsed_exports = None]))

\* The Exports step has run on a package with exports and found no key for the
\* specifier <name>/<sub>, while <package_root>/<sub> names a file, directly or
\* through the implicit-file probe.
UnmatchedFileOfPackage ==
    \E i \in 1..Len(pLog) :
        /\ pLog[i].step = "Exports"
        /\ pLog[i].state.parsed_exports # None
        /\ pLog[i].result.t = "Continue"
        /\ pLog[i].state.name # None
        /\ StartsWith(pIn.call.import_specifier, pLog[i].state.name.v \o <<"/">>)
        /\ FileOrImplicit(Preset("default").implicit_file_resolver,
                          Join(pLog[i].state.package_root,
                               From(pIn.call.import_specifier,
                                    Len(pLog[i].state.name.v) + 1))) # None

\* The file Resolver::resolve is expected to return for such a specifier.
FileOfPackage ==
    LET i == CHOOSE j \in 1..Len(pLog) : pLog[j].step = "Exports"
    IN  FileOrImplicit(Preset("default").implicit_file_resolver,
                       Join(pLog[i].state.package_root,
                            From(pIn.call.import_specifier,
                                 Len(pLog[i].state.name.v) + 1))).v

\* C27: with the default preset the files fallback, the index fallback and the
\* file probe run whether or not parsed_exports is set: a specifier <pkg>/<sub>
\* that no key of the exports map matches resolves to <package_root>/<sub>,
\* directly or through the implicit-file probe, when that file exists.
C27_ExportsDoNotRestrictFiles ==
    pIn.preset = "default" =>
        /\ LastStepsIgnoreExports
        /\ (pOut.t = "returned" /\ UnmatchedFileOfPackage) =>
                /\ pLog[Len(pLog)].step = "FileResolver"
                /\ pOut.result = [ok |-> TRUE, path |-> FileOfPackage]

\* `foo/m` is no key of the exports of foo, and foo/m.js is found by the probe.
C27_Witness ==
    /\ pIn.preset = "default"
    /\ pIn.foo = ManifestFooExportsAndFields
    /\ pIn.call.import_specifier = <<"f", "o", "o", "/", "m">>
    /\ UnmatchedFileOfPackage
    /\ pOut.t = "returned"
    /\ pOut.result = [ok |-> TRUE, path |-> FsFooM]

\* The index.js-like file the files field of a package.json lists: index.js, or,
\* failing that, index.cjs.
ListedIndex(state) ==
    IF state.raw.files = None THEN None
    ELSE IF <<"i", "n", "d", "e", "x", ".", "j", "s">> \in state.raw.files.v THEN Some(<<"i", "n", "d", "e", "x", ".", "j", "s">>)
    ELSE IF <<"i", "n", "d", "e", "x", ".", "c", "j", "s">> \in state.raw.files.v THEN Some(<<"i", "n", "d", "e", "x", ".", "c", "j", "s">>)
    ELSE None

\* The files fallback answers from the listing: Ok(<package_root>/<match>) when
\* the specifier is the name of the package and the listing has a match, whether
\* the file is there or not, and Continue otherwise.
FilesStepFromListing ==
    \A i \in 1..Len(pLog) :
        pLog[i].step = "files_resolver" =>
            pLog[i].result =
                IF /\ pLog[i].state.name = Some(pLog[i].import_specifier)
                   /\ ListedIndex(pLog[i].state) # None
                THEN StepOk(Join(pLog[i].state.package_root,
                                 ListedIndex(pLog[i].state).v))
                ELSE StepContinue(pLog[i].import_specifier, pLog[i].state)

\* The files fallback has returned a path that names no file.
ListedFileAbsent ==
    /\ pLog # <<>>
    /\ pLog[Len(pLog)].step = "files_resolver"
    /\ pLog[Len(pLog)].result.t = "Ok"
    /\ ~exists(pLog[Len(pLog)].result.path)

\* resolve then fails with CanonicalizeRelativePathFailed, no later step called.
AbsentFileEndsChain ==
    (\E i \in 1..Len(pLog) :
        /\ pLog[i].step = "files_resolver" /\ pLog[i].result.t = "Ok"
        /\ ~exists(pLog[i].result.path)) =>
        /\ ListedFileAbsent
        /\ pOut.t = "returned"
        /\ ~pOut.result.ok
        /\ pOut.result.error = "CanonicalizeRelativePathFailed"

\* C28: the files fallback decides from the files listing alone: for a specifier
\* equal to the package name and a listing with index.js (or, failing that,
\* index.cjs) it returns Ok(<package_root>/<match>) without looking for the file;
\* when the file is absent resolve fails with CanonicalizeRelativePathFailed and
\* the index fallback and the file probe are not consulted.
C28_FilesFallbackTrustsListing == FilesStepFromListing /\ AbsentFileEndsChain

\* foo lists index.js, which is not in the package.
C28_Witness ==
    /\ pIn.preset = "default"
    /\ pIn.foo = ManifestFooFiles
    /\ pIn.call.import_specifier = <<"f", "o", "o">>
    /\ ListedFileAbsent
    /\ pOut.t = "returned"
    /\ pOut.result.error = "CanonicalizeRelativePathFailed"

\* The first ancestor of from, from itself included, whose last segment is
\* node_modules, or else from/node_modules when that is a directory.
NearestNodeModules(from) ==
    LET ends == {n \in 1..Len(from) :
                    /\ n = Len(from) \/ from[n + 1] = "/"
                    /\ EndsWith(SubSeq(from, 1, n), <<"/">> \o NODE_MODULES)}
    IN  IF ends # {}
        THEN Some(SubSeq(from, 1, CHOOSE n \in ends : \A m \in ends : m <= n))
        ELSE IF is_dir(Join(from, NODE_MODULES)) THEN Some(Join(from, NODE_MODULES))
        ELSE None

\* The directory whose package.json the loader step reads for a specifier.
LoaderDirectory(import_specifier, from) ==
    Join(NearestNodeModules(from).v, get_npm_package_name(import_specifier))

\* The loader step reads the package.json of that directory and of no other: it
\* hands on the PackageJson of that directory, or returns the error of the read.
LoaderReadsOneDirectory ==
    \A i \in 1..Len(pLog) :
        pLog[i].step = "PackageJsonResolver" =>
            IF NearestNodeModules(pIn.call.from) = None
            THEN pLog[i].result = StepError("NodeModulesNotFound")
            ELSE LET dir == LoaderDirectory(pLog[i].import_specifier, pIn.call.from)
                 IN  IF ~is_file(Join(dir, PACKAGE_JSON))
                     THEN pLog[i].result = StepError("IoError")
                     ELSE \/ /\ pLog[i].result.t = "Continue"
                             /\ pLog[i].result.state.package_root = dir
                          \/ pLog[i].result = StepError("ParsePackageJsonFailed")

\* An error of the loader step ends the chain: resolve returns it.
LoaderErrorAborts ==
    \A i \in 1..Len(pLog) :
        (pLog[i].step = "PackageJsonResolver" /\ pLog[i].result.t = "Error") =>
            /\ i = Len(pLog)
            /\ pOut = [t |-> "returned",
                       result |-> [ok |-> FALSE, error |-> pLog[i].result.error]]

\* C29: the package.json loader consults one node_modules directory per
\* resolution: the first ancestor of from, from included, whose last segment is
\* node_modules, or else from/node_modules if that is a directory; for a file
\* under node_modules/a/ the node_modules that holds a, never a/node_modules. When
\* the package.json of the package in that directory cannot be read, the chain
\* aborts with IoError and no other node_modules directory is tried.
C29_LoaderUsesOneNodeModules == LoaderReadsOneDirectory /\ LoaderErrorAborts

\* qux is installed next to foo, not inside it: asked for from the copy of bar
\* inside foo, its package.json is looked for in foo/node_modules only.
C29_Witness ==
    /\ pIn.call = [import_specifier |-> <<"q", "u", "x">>, from |-> FsFooBarI]
    /\ is_file(Join(DirQux, PACKAGE_JSON))
    /\ pOut.t = "returned"
    /\ pOut.result = [ok |-> FALSE, error |-> "IoError"]
    /\ pLog[Len(pLog)].step = "PackageJsonResolver"

-----------------------------------------------------------------------------
(* Claims about the exports matcher                                          *)

ExportsDone == exOut.state = "done"

StarCount(s) == Cardinality({i \in 1..Len(s) : s[i] = "*"})

\* A key with a single `*`, at its end, whose value is a string with one `*`, in a
\* map with no other wildcard key, and a specifier that is no key of the map and
\* starts with the literal prefix of the key.
TrailingStarCase(i) ==
    LET key == exIn.map[i].k
        value == exIn.map[i].v
    IN  /\ StarCount(key) = 1 /\ key[Len(key)] = "*"
        /\ value.t = "Filename" /\ StarCount(value.s) = 1
        /\ \A j \in 1..Len(exIn.map) : j # i => StarCount(exIn.map[j].k) = 0
        /\ exIn.import_specifier \notin Keys(exIn.map)
        /\ StartsWith(exIn.import_specifier, UpTo(key, Len(key) - 1))

\* C5: for a key ending with a single `*` whose value is a string with one `*`, a
\* specifier starting with the key's literal prefix resolves to the value with its
\* `*` replaced by the rest of the specifier (foo/lib/util with "foo/lib/*" ->
\* "./src/*.js" gives <package_root>/src/util.js).
C5_TrailingWildcardSubstitution ==
    ExportsDone =>
        \A i \in 1..Len(exIn.map) :
            TrailingStarCase(i) =>
                LET key == exIn.map[i].k
                    rest == From(exIn.import_specifier, Len(key) - 1)
                IN exOut.path =
                    Some(Join(FooRoot, ReplaceFirst(exIn.map[i].v.s, "*", rest)))

IsConditionalEntry ==
    ExportsDone /\ exOut.entry.t \in {"Conditional", "ConditionalWithPlaceholders"}

EntryPlaceholders ==
    IF exOut.entry.t = "ConditionalWithPlaceholders"
    THEN Some(exOut.entry.captures) ELSE None

LeafPath(s, placeholders) ==
    IF placeholders # None
    THEN Some(Join(FooRoot, replace_placeholders(s, placeholders.v)))
    ELSE Some(Join(FooRoot, s))

\* The selection as the claim states it: the first configured name that is a key
\* of the map decides, and a nested conditional decides by recursion alone.
RECURSIVE FirstKeyWins(_, _, _)
FirstKeyWins(names, map, placeholders) ==
    LET hits == {i \in 1..Len(names) : names[i] \in Keys(map)}
    IN  IF hits = {} THEN None
        ELSE LET value == Get(map, names[CHOOSE h \in hits : \A j \in hits : h <= j])
             IN  IF value.t = "Filename" THEN LeafPath(value.s, placeholders)
                 ELSE FirstKeyWins(names, value.m, placeholders)

\* C6 as stated: the first configured name that is a key of the map wins; a nested
\* conditional gives the result of the recursion (none when no configured name is a
\* key of the nested map) and later names of the outer list are not consulted.
C6_FirstKeyWins ==
    IsConditionalEntry =>
        exOut.path = FirstKeyWins(exIn.condition_names, exOut.entry.m, EntryPlaceholders)

\* The selection with fall-through: the first configured name that is a key of the
\* map and yields a file decides (a filename yields itself, a nested conditional
\* yields what the same selection yields for it).
RECURSIVE FirstYieldingKeyWins(_, _, _)
FirstYieldingKeyWins(names, map, placeholders) ==
    LET yields(i) ==
            /\ names[i] \in Keys(map)
            /\ \/ Get(map, names[i]).t = "Filename"
               \/ FirstYieldingKeyWins(names, Get(map, names[i]).m, placeholders) # None
        hits == {i \in 1..Len(names) : yields(i)}
    IN  IF hits = {} THEN None
        ELSE LET value == Get(map, names[CHOOSE h \in hits : \A j \in hits : h <= j])
             IN  IF value.t = "Filename" THEN LeafPath(value.s, placeholders)
                 ELSE FirstYieldingKeyWins(names, value.m, placeholders)

Reversed(m) == [i \in 1..Len(m) |-> m[Len(m) + 1 - i]]

\* C6 (amended): condition selection iterates the configured ordered list and the
\* first name that is a key of the map and yields a file wins, whatever the key
\* order of the map: a filename is the result at once; a nested conditional is
\* searched with the same list, and when it yields nothing the later names of the
\* outer list are consulted. {import: m.mjs, require: c.cjs, default: d.js} gives
\* m.mjs under [import, module, default] and c.cjs under [require, default].
C6_FirstYieldingKeyWins ==
    IsConditionalEntry =>
        /\ exOut.path =
             FirstYieldingKeyWins(exIn.condition_names, exOut.entry.m, EntryPlaceholders)
        /\ resolve_condition_name(exIn.condition_names, Reversed(exOut.entry.m),
                                  FooRoot, EntryPlaceholders) = exOut.path
        /\ (Keys(exOut.entry.m) = Keys(CondS3) /\ exOut.entry.t = "Conditional"
            /\ \A k \in Keys(CondS3) : Get(exOut.entry.m, k) = Get(CondS3, k)) =>
                /\ exIn.condition_names = <<IMPORT, MODULE_, DEFAULT>> =>
                        exOut.path = Some(Join(FooRoot, <<"m", ".", "m", "j", "s">>))
                /\ exIn.condition_names = <<REQUIRE, DEFAULT>> =>
                        exOut.path = Some(Join(FooRoot, <<"c", ".", "c", "j", "s">>))

\* A nested conditional that offers no configured name was selected first, and the
\* selection went on to `default` of the outer map.
C6_Witness ==
    /\ IsConditionalEntry
    /\ exOut.entry.m = CondNestedMiss
    /\ exIn.condition_names = <<IMPORT, MODULE_, DEFAULT>>
    /\ exOut.path = Some(Join(FooRoot, <<"d", ".", "j", "s">>))

\* The key of the wildcard loop of match_export that produced the entry: the
\* first one, in the iteration order of the map, whose iteration returns.
RECURSIVE MatchedKey(_, _, _)
MatchedKey(map, i, import_specifier) ==
    IF MatchKey(map, map[i].k, map[i].v, import_specifier) # None THEN map[i].k
    ELSE MatchedKey(map, i + 1, import_specifier)

\* The parts of a key around its asterisks with the captures put between them, one
\* capture for each asterisk from left to right.
RECURSIVE Interleave(_, _)
Interleave(parts, captures) ==
    IF Len(parts) = 1 THEN parts[1]
    ELSE parts[1] \o captures[1] \o Interleave(Tail(parts), Tail(captures))

\* C18: wildcard round trip: a match against a key with k asterisks produces
\* exactly k captures, and the key with its asterisks replaced from left to right
\* by the captures is the specifier, wherever the asterisks stand in the key.
C18_WildcardRoundTrip ==
    (/\ exOut.state = "done"
     /\ exOut.entry # None
     /\ exOut.entry.t \in {"FilenameWithPlaceholders", "ConditionalWithPlaceholders"}) =>
        LET key == MatchedKey(exIn.map, 1, exIn.import_specifier)
            parts == Split(key, "*")
        IN  /\ Len(exOut.entry.captures) = Len(parts) - 1
            /\ Interleave(parts, exOut.entry.captures) = exIn.import_specifier

-----------------------------------------------------------------------------
(* Specifications                                                            *)

StartReport == InitReport /\ IdleExports /\ IdleChain /\ IdleWalk /\ IdleCache /\ IdleEntrypoints /\ IdlePreset
SpecReport == StartReport /\ [][NextReport]_vars

StartExports == InitExports /\ IdleReport /\ IdleChain /\ IdleWalk /\ IdleCache /\ IdleEntrypoints /\ IdlePreset
SpecExports == StartExports /\ [][NextExports]_vars

StartChain == InitChain /\ IdleReport /\ IdleExports /\ IdleWalk /\ IdleCache /\ IdleEntrypoints /\ IdlePreset
SpecChain == StartChain /\ [][NextChain]_vars

StartWalk == InitWalk /\ IdleReport /\ IdleExports /\ IdleChain /\ IdleCache /\ IdleEntrypoints /\ IdlePreset
SpecWalk == StartWalk /\ [][NextWalk]_vars
\* Nothing but analyze_package runs in its thread: a step that can be taken is taken.
SpecWalkFair == SpecWalk /\ WF_vars(NextWalk)

StartCache == InitCache /\ IdleReport /\ IdleExports /\ IdleChain /\ IdleWalk /\ IdleEntrypoints /\ IdlePreset
\* threads that call get_or_parse_package_json
SpecCache == StartCache /\ [][NextCache]_vars
\* threads that call Resolver::resolve of the default preset
SpecResolve == StartCache /\ [][NextResolve]_vars

StartEntrypoints == InitEntrypoints /\ IdleReport /\ IdleExports /\ IdleChain /\ IdleWalk /\ IdleCache /\ IdlePreset
\* analyze_package up to the walk of the entrypoints
SpecEntrypoints == StartEntrypoints /\ [][NextEntrypoints]_vars

StartPreset == InitPreset /\ IdleReport /\ IdleExports /\ IdleChain /\ IdleWalk /\ IdleCache /\ IdleEntrypoints
SpecPreset == StartPreset /\ [][NextPreset]_vars

=============================================================================
